---------------------------- MODULE Spec2Model ----------------------------
(***************************************************************************)
(* A model of pyrainbird: the tunnelSip codec (rainbird.py), the schedule  *)
(* collection of the asyncio controller (async_client.py), the schedule    *)
(* model (data.py) and the recurrence timeline (timeline.py, timespan.py). *)
(*                                                                         *)
(* Conventions.                                                            *)
(*  - A wire string is a sequence of hex digits 0..15 ("A00010" is         *)
(*    <<10,0,0,0,1,0>>); "%X" prints upper case and int(s, 16) reads both  *)
(*    cases, so the case of a digit is not modelled.                       *)
(*  - A Python int that is formatted or parsed is kept as its canonical    *)
(*    digit sequence (no leading zero, <<>> is 0), so that 8 and 16 nibble *)
(*    fields need no machine integer; small fields are also taken ToNat.   *)
(*  - A date-time is a number of minutes since 2023-01-01 00:00 (a Sunday),*)
(*    second = 0 as the code sets it; the microsecond that now() carries   *)
(*    is kept apart (nowUs) because replace(second=0) does not clear it.   *)
(*  - An exception leaving a function is a result record with ok = FALSE   *)
(*    and the exception's class in exc.                                    *)
(*                                                                         *)
(* Three specifications share the module: SpecCodec (encode / decode),     *)
(* Spec (the controller's get_schedule against a device) and SpecTimeline  *)
(* (timelines and range queries), SpecIter (lazy iteration).               *)
(***************************************************************************)
EXTENDS Integers, Sequences, FiniteSets, TLC

VARIABLES
    \* ---- codec (SpecCodec)
    cphase,         \* "args" | "encoded" | "decoded" | "reencoded"
    cmd,            \* the template being encoded (a Registry entry)
    args,           \* the argument list given to encode_command
    wire,           \* result of encode_command(cmd, args)
    decoded,        \* result of decode(wire.data)
    rewire,         \* result of encode(decoded.type, decoded fields...)
    \* ---- controller (Spec)
    pc,             \* position of the get_schedule coroutine
    cache,          \* AsyncRainbirdController._cache
    commands,       \* get_schedule's list of sub-commands
    idx,            \* index of the sub-command being processed (0-based)
    inflight,       \* requests sent to the device and not yet answered
    sent,           \* every tunnelSip request sent, in order
    schedule_data,  \* get_schedule's aggregate of decoded fragments
    stations,       \* get_schedule's AvailableStations
    max_programs,   \* get_schedule's model.model_info.max_programs
    outcome,        \* how the last get_schedule call ended
    schedule,       \* the Schedule the last get_schedule call returned
    lastCall,       \* the last _process_command call: request, response, end
    passes,         \* number of get_schedule calls started
    faults,         \* number of off-nominal answers the device gave this pass
    \* ---- timeline (SpecTimeline, SpecIter)
    nowDay, nowMin, nowUs,  \* datetime.datetime.now()
    tlSchedule,     \* the Schedule whose programs the timelines are built from
    timeline,       \* the ProgramTimeline's iterable, as built
    subject,        \* the program the timeline is of (0: the whole schedule)
    query,          \* the last overlapping(start, end) call and its result
    cacheLen,       \* how many items of the timeline have been generated (cache=True)
    iters           \* the live iterators over the timeline

codecVars == <<cphase, cmd, args, wire, decoded, rewire>>
ctlVars == <<pc, cache, commands, idx, inflight, sent, schedule_data, stations,
             max_programs, outcome, schedule, lastCall, passes, faults>>
tlVars == <<nowDay, nowMin, nowUs, tlSchedule, timeline, subject, query,
            cacheLen, iters>>
vars == <<codecVars, ctlVars, tlVars>>

-----------------------------------------------------------------------------
(* Sequences and numbers *)

Min(a, b) == IF a < b THEN a ELSE b
Max(a, b) == IF a > b THEN a ELSE b

\* Python's s[a:b] for 0 <= a, 0 <= b (0-based, end exclusive, clipped).
Slice(s, a, b) ==
    LET lo == Min(a, Len(s))
        hi == Min(b, Len(s))
    IN  IF hi <= lo THEN <<>> ELSE SubSeq(s, lo + 1, hi)

RECURSIVE StripZeros(_)
StripZeros(s) ==
    IF s = <<>> THEN <<>>
    ELSE IF Head(s) = 0 THEN StripZeros(Tail(s)) ELSE s

Zeros(n) == [i \in 1..n |-> 0]

\* "%0nX" % v for v >= 0: at least n digits, never truncated.
FormatHex(v, n) == IF Len(v) >= n THEN (IF v = <<>> THEN <<0>> ELSE v)
                   ELSE Zeros(n - Len(v)) \o v

RECURSIVE ToNatBase(_, _)
ToNatBase(s, base) ==
    IF s = <<>> THEN 0
    ELSE ToNatBase(SubSeq(s, 1, Len(s) - 1), base) * base + s[Len(s)]

ToNat(s) == ToNatBase(s, 16)

RECURSIVE FromNat(_)
FromNat(n) == IF n = 0 THEN <<>> ELSE Append(FromNat(n \div 16), n % 16)

\* The bit test x & mask == mask for a one-bit or many-bit mask.
RECURSIVE BitAnd(_, _)
BitAnd(x, y) ==
    IF x = 0 \/ y = 0 THEN 0
    ELSE 2 * BitAnd(x \div 2, y \div 2) + (IF x % 2 = 1 /\ y % 2 = 1 THEN 1 ELSE 0)

-----------------------------------------------------------------------------
(* The command registry (pyrainbird/resources: sipcommands.yaml, the table   *)
(* the package loads; the copy kept in pyrainbird/__init__.py is the one     *)
(* modelled).  A template: name (the yaml key, TYPE of the by-id map), code  *)
(* ("command"), length, response, scalar ("parameter" or "parameterOne" is a *)
(* key), fields (the keys outside RESERVED_FIELDS in order; dict = the value *)
(* is a mapping with position and length), decoder.                          *)

NoLength == 0   \* "length" absent or falsy

F(n, p, l) == [name |-> n, dict |-> TRUE, position |-> p, length |-> l]
Scalar(n) == [name |-> n, dict |-> FALSE, position |-> 0, length |-> 0]

Request(n, c, r, l, sc, fs) ==
    [name |-> n, code |-> c, length |-> l, response |-> r, scalar |-> sc,
     fields |-> fs, decoder |-> "decode_template"]
Response(n, c, l, fs) ==
    [name |-> n, code |-> c, length |-> l, response |-> <<>>, scalar |-> FALSE,
     fields |-> fs, decoder |-> "decode_template"]

ControllerCommands == <<
    Request("ModelAndVersionRequest",    <<0,2>>, <<8,2>>, 1, FALSE, <<>>),
    Request("AvailableStationsRequest",  <<0,3>>, <<8,3>>, 2, TRUE, <<Scalar("parameter")>>),
    Request("CommandSupportRequest",     <<0,4>>, <<8,4>>, 2, FALSE, <<Scalar("commandToTest")>>),
    Request("SerialNumberRequest",       <<0,5>>, <<8,5>>, 1, FALSE, <<>>),
    Request("CurrentTimeRequest",        <<1,0>>, <<9,0>>, 1, FALSE, <<>>),
    Request("CurrentDateRequest",        <<1,2>>, <<9,2>>, 1, FALSE, <<>>),
    Request("WaterBudgetRequest",        <<3,0>>, <<11,0>>, 2, TRUE, <<Scalar("parameter")>>),
    Request("CurrentRainSensorStateRequest", <<3,14>>, <<11,14>>, 1, FALSE, <<>>),
    Request("CurrentStationsActiveRequest",  <<3,15>>, <<11,15>>, 2, TRUE, <<Scalar("parameter")>>),
    Request("ManuallyRunProgramRequest", <<3,8>>, <<0,1>>, 2, TRUE, <<Scalar("parameter")>>),
    Request("ManuallyRunStationRequest", <<3,9>>, <<0,1>>, 4, TRUE,
            <<Scalar("parameterOne"), Scalar("parameterTwo")>>),
    Request("TestStationsRequest",       <<3,10>>, <<0,1>>, 2, TRUE, <<Scalar("parameter")>>),
    Request("StopIrrigationRequest",     <<4,0>>, <<0,1>>, 1, FALSE, <<>>),
    Request("RainDelayGetRequest",       <<3,6>>, <<11,6>>, 1, FALSE, <<>>),
    Request("RainDelaySetRequest",       <<3,7>>, <<0,1>>, 3, TRUE, <<Scalar("parameter")>>),
    Request("AdvanceStationRequest",     <<4,2>>, <<0,1>>, 2, TRUE, <<Scalar("parameter")>>),
    Request("CurrentIrrigationStateRequest", <<4,8>>, <<12,8>>, 1, FALSE, <<>>),
    Request("RetrieveScheduleRequest",   <<2,0>>, <<10,0>>, 3, TRUE,
            <<Scalar("parameterOne"), Scalar("parameterTwo")>>) >>

ControllerResponses == <<
    Response("NotAcknowledgeResponse", <<0,0>>, 3,
             <<F("commandEcho", 2, 2), F("NAKCode", 4, 2)>>),
    Response("AcknowledgeResponse", <<0,1>>, 2, <<F("commandEcho", 2, 2)>>),
    Response("ModelAndVersionResponse", <<8,2>>, 5,
             <<F("modelID", 2, 4), F("protocolRevisionMajor", 6, 2),
               F("protocolRevisionMinor", 8, 2)>>),
    Response("AvailableStationsResponse", <<8,3>>, 6,
             <<F("pageNumber", 2, 2), F("setStations", 4, 8)>>),
    Response("CommandSupportResponse", <<8,4>>, 3,
             <<F("commandEcho", 2, 2), F("support", 4, 2)>>),
    Response("SerialNumberResponse", <<8,5>>, 9, <<F("serialNumber", 2, 16)>>),
    Response("CurrentTimeResponse", <<9,0>>, 4,
             <<F("hour", 2, 2), F("minute", 4, 2), F("second", 6, 2)>>),
    Response("CurrentDateResponse", <<9,2>>, 4,
             <<F("day", 2, 2), F("month", 4, 1), F("year", 5, 3)>>),
    Response("WaterBudgetResponse", <<11,0>>, 4,
             <<F("programCode", 2, 2), F("highByte", 4, 2), F("lowByte", 6, 2)>>),
    Response("CurrentRainSensorStateResponse", <<11,14>>, 2,
             <<F("sensorState", 2, 2)>>),
    Response("CurrentStationsActiveResponse", <<11,15>>, 6,
             <<F("pageNumber", 2, 2), F("activeStations", 4, 8)>>),
    Response("RainDelaySettingResponse", <<11,6>>, 3, <<F("delaySetting", 2, 4)>>),
    Response("CurrentIrrigationStateResponse", <<12,8>>, 2,
             <<F("irrigationState", 2, 2)>>) >>

\* The schedule response: its template names the schedule decoder and no
\* length or field.
RetrieveScheduleResponse ==
    [name |-> "RetrieveScheduleResponse", code |-> <<10,0>>, length |-> NoLength,
     response |-> <<>>, scalar |-> FALSE, fields |-> <<>>,
     decoder |-> "decode_schedule"]

RAINBIRD_COMMANDS ==
    ControllerCommands \o ControllerResponses \o <<RetrieveScheduleResponse>>

Template(n) ==
    CHOOSE t \in {RAINBIRD_COMMANDS[i] : i \in DOMAIN RAINBIRD_COMMANDS} : t.name = n

\* RAINBIRD_COMMANDS_BY_ID.get(code): None is NoTemplate.
NoTemplate == [name |-> "", code |-> <<>>, length |-> NoLength, response |-> <<>>,
               scalar |-> FALSE, fields |-> <<>>, decoder |-> ""]
RAINBIRD_COMMANDS_BY_ID(code) ==
    LET hit == {i \in DOMAIN RAINBIRD_COMMANDS : RAINBIRD_COMMANDS[i].code = code}
    IN  IF hit = {} THEN NoTemplate
        ELSE RAINBIRD_COMMANDS[CHOOSE i \in hit : \A j \in hit : j <= i]

-----------------------------------------------------------------------------
(* rainbird.py: encode_command, encode, decode_template, decode_schedule,   *)
(* decode.                                                                   *)

Raised(e) == [ok |-> FALSE, exc |-> e, data |-> <<>>]
Encoded(d) == [ok |-> TRUE, exc |-> "", data |-> d]

\* The old style encoding: the code, the first argument in the width left
\* over, every other argument in two digits ("%02X").
RECURSIVE FormatRest(_)
FormatRest(as) ==
    IF as = <<>> THEN <<>> ELSE FormatHex(Head(as), 2) \o FormatRest(Tail(as))

EncodeScalar(command_set, as) ==
    IF as = <<>> THEN command_set.code
    ELSE command_set.code
            \o FormatHex(Head(as), (command_set.length - Len(as)) * 2)
            \o FormatRest(Tail(as))

\* The loop over the template's fields: data is spliced field by field,
\* each field taking the next argument (args_list.pop(0)).
RECURSIVE EncodeFields(_, _, _)
EncodeFields(fs, as, data) ==
    IF fs = <<>> THEN Encoded(data)
    ELSE LET f == Head(fs) IN
         IF ~f.dict THEN Raised("TypeError")
         ELSE IF as = <<>> THEN Raised("IndexError")
         ELSE EncodeFields(Tail(fs), Tail(as),
                Slice(data, 0, f.position)
                  \o FormatHex(Head(as), f.length)
                  \o Slice(data, f.position + f.length, Len(data)))

encode_command(command_set, as) ==
    IF command_set.length = NoLength THEN Raised("RainbirdCodingException")
    ELSE IF Len(as) > command_set.length THEN Raised("RainbirdCodingException")
    ELSE IF command_set.length = 1 \/ command_set.scalar
         THEN Encoded(EncodeScalar(command_set, as))
    ELSE EncodeFields(command_set.fields, as,
                      command_set.code \o Zeros(2 * (command_set.length - 1)))

encode(command, as) ==
    IF \A i \in DOMAIN RAINBIRD_COMMANDS : RAINBIRD_COMMANDS[i].name # command
    THEN Raised("RainbirdCodingException")
    ELSE encode_command(Template(command), as)

\* A decoded message.  hasType: the TYPE key is present; fields: the decoded
\* fields in template order; frag: the schedule decoder's result; data: the
\* raw payload a "data" key carries.
NoFrag == [kind |-> "none"]
Message(t, fs, fr, d) ==
    [ok |-> TRUE, exc |-> "", hasType |-> t # "", type |-> t, fields |-> fs,
     frag |-> fr, data |-> d]
DecodeRaised(e) ==
    [ok |-> FALSE, exc |-> e, hasType |-> FALSE, type |-> "", fields |-> <<>>,
     frag |-> NoFrag, data |-> <<>>]

\* The fields decode_template reads: mappings whose position and length are
\* both truthy.
Decodable(fs) == SelectSeq(fs, LAMBDA f : f.dict /\ f.position # 0 /\ f.length # 0)

\* (a slice that stops one digit early)
decode_template_slice_short(data, f) ==
    Slice(data, f.position, f.position + f.length - 1)

decode_template_slice(data, f) == Slice(data, f.position, f.position + f.length)

decode_template(data, cmd_template) ==
    LET fs == Decodable(cmd_template.fields) IN
    IF \E i \in DOMAIN fs : decode_template_slice(data, fs[i]) = <<>>
    THEN DecodeRaised("ValueError")     \* int('', 16)
    ELSE Message(cmd_template.name,
                 [i \in DOMAIN fs |->
                    [name |-> fs[i].name,
                     value |-> StripZeros(decode_template_slice(data, fs[i]))]],
                 NoFrag, <<>>)

\* (rest cut in chunks of two digits whatever n is)
ChunksOfTwo(rest, n) ==
    [i \in 1..((Len(rest) + 1) \div 2) |-> ToNat(Slice(rest, 2 * (i - 1), 2 * i))]

\* rest cut in chunks of n digits, the last one possibly shorter:
\* [int(rest[i : i + n], 16) for i in range(0, len(rest), n)]
RECURSIVE Chunks(_, _)
Chunks(rest, n) ==
    IF rest = <<>> THEN <<>>
    ELSE <<ToNat(Slice(rest, 0, n))>> \o Chunks(Slice(rest, n, Len(rest)), n)

\* int(s): a decimal parse, which rejects '' and the digits A..F.
IsDecimal(s) == s # <<>> /\ \A i \in DOMAIN s : s[i] <= 9
DecInt(s) == ToNatBase(s, 10)

\* (the masked bits are left in the index)
BitKeep(x, mask) == x

BitNot(x, mask) == x - BitAnd(x, mask)     \* x & ~mask

decode_schedule(data) ==
    IF Slice(data, 4, 6) = <<>> THEN DecodeRaised("ValueError")
    ELSE
    LET subcommand == ToNat(Slice(data, 4, 6))
        rest == Slice(data, 6, Len(data))
        T == RetrieveScheduleResponse.name
    IN
    IF subcommand = 0 THEN
        IF ~(IsDecimal(Slice(rest, 0, 4)) /\ IsDecimal(Slice(rest, 4, 6))
                /\ IsDecimal(Slice(rest, 6, 8)))
        THEN DecodeRaised("ValueError")
        ELSE Message(T, <<>>,
                [kind |-> "controllerInfo",
                 stationDelay |-> DecInt(Slice(rest, 0, 4)),
                 rainDelay |-> DecInt(Slice(rest, 4, 6)),
                 rainSensor |-> DecInt(Slice(rest, 6, 8))], <<>>)
    ELSE IF BitAnd(subcommand, 16) = 16 THEN
        LET fields == Chunks(rest, 2) IN
        IF Len(fields) < 6 THEN DecodeRaised("IndexError")
        ELSE Message(T, <<>>,
                [kind |-> "programInfo",
                 program |-> BitNot(subcommand, 16),
                 daysOfWeekMask |-> fields[1],
                 period |-> fields[2],
                 synchro |-> fields[3],
                 permanentDaysOff |-> fields[4],
                 reserved |-> fields[5],
                 frequency |-> fields[6]], <<>>)
    ELSE IF BitAnd(subcommand, 96) = 96 THEN
        Message(T, <<>>,
                [kind |-> "programStartInfo",
                 program |-> BitNot(subcommand, 96),
                 startTime |-> Chunks(rest, 4)], <<>>)
    ELSE IF BitAnd(subcommand, 128) = 128 THEN
        LET station == BitNot(subcommand, 128)
            durations == Chunks(rest, 4)
            numPrograms == Len(durations) \div 2
        IN  Message(T, <<>>,
                [kind |-> "durations",
                 entries |-> <<
                    [zone |-> station * 2,
                     durations |-> Slice(durations, 0, numPrograms)],
                    [zone |-> station * 2 + 1,
                     durations |-> Slice(durations, numPrograms, 2 * numPrograms)]
                 >>], <<>>)
    ELSE Message(T, <<>>, NoFrag, data)

decode(data) ==
    LET cmd_template == RAINBIRD_COMMANDS_BY_ID(Slice(data, 0, 2)) IN
    IF cmd_template = NoTemplate THEN Message("", <<>>, NoFrag, data)
    ELSE IF cmd_template.decoder = "decode_schedule" THEN decode_schedule(data)
    ELSE decode_template(data, cmd_template)

-----------------------------------------------------------------------------
(* The parts of the state a specification does not use stay at rest.         *)

CodecAtRest ==
    /\ cphase = "rest" /\ cmd = NoTemplate /\ args = <<>>
    /\ wire = Raised("") /\ decoded = DecodeRaised("") /\ rewire = Raised("")

CtlAtRest ==
    /\ pc = "rest" /\ cache = <<>> /\ commands = <<>> /\ idx = 0
    /\ inflight = <<>> /\ sent = <<>> /\ schedule_data = <<>> /\ stations = <<>>
    /\ max_programs = 0 /\ outcome = "none" /\ schedule = <<>>
    /\ lastCall = <<>> /\ passes = 0 /\ faults = 0

TlAtRest ==
    /\ nowDay = 0 /\ nowMin = 0 /\ nowUs = 0 /\ tlSchedule = <<>>
    /\ timeline = <<>> /\ subject = 0 /\ query = <<>> /\ cacheLen = 0
    /\ iters = <<>>

-----------------------------------------------------------------------------
(* SpecCodec: encode_command on a template and an argument list, decode of   *)
(* the wire string it gives, encode of the decoded fields.                   *)

MaxArgs == 3

Ones(n) == [i \in 1..n |-> 15]
Ramp(n) == [i \in 1..n |-> i % 16]

\* The width the i-th argument is written in.
ArgWidth(t, i) ==
    IF ~t.scalar /\ i <= Len(t.fields) /\ t.fields[i].dict /\ t.fields[i].length > 0
    THEN t.fields[i].length ELSE 2

\* Arguments tried in position i: 0, 1, a value with distinct digits, the
\* largest value of the width, and the smallest value that does not fit.
ArgValues(t, i) ==
    LET w == ArgWidth(t, i)
    IN  {<<>>, <<1>>, Ramp(w), Ones(w), <<1>> \o Zeros(w)}

ArgLists(t) ==
    UNION { {as \in [1..n -> UNION {ArgValues(t, i) : i \in 1..n}] :
                \A i \in 1..n : as[i] \in ArgValues(t, i)} : n \in 0..MaxArgs }

InitCodec ==
    /\ cphase = "args"
    /\ cmd \in {RAINBIRD_COMMANDS[i] : i \in DOMAIN RAINBIRD_COMMANDS}
    /\ args \in ArgLists(cmd)
    /\ wire = Raised("") /\ decoded = DecodeRaised("") /\ rewire = Raised("")
    /\ CtlAtRest /\ TlAtRest

Encode ==
    /\ cphase = "args"
    /\ wire' = encode_command(cmd, args)
    /\ cphase' = "encoded"
    /\ UNCHANGED <<cmd, args, decoded, rewire, ctlVars, tlVars>>

Decode ==
    /\ cphase = "encoded" /\ wire.ok
    /\ decoded' = decode(wire.data)
    /\ cphase' = "decoded"
    /\ UNCHANGED <<cmd, args, wire, rewire, ctlVars, tlVars>>

\* encode(command, *entry.values()) of tests/test_rainbird.py test_encode.
FieldValues(m) == [i \in DOMAIN m.fields |-> m.fields[i].value]

ReEncode ==
    /\ cphase = "decoded" /\ decoded.ok /\ decoded.hasType
    /\ rewire' = encode(decoded.type, FieldValues(decoded))
    /\ cphase' = "reencoded"
    /\ UNCHANGED <<cmd, args, wire, decoded, ctlVars, tlVars>>

NextCodec == Encode \/ Decode \/ ReEncode

SpecCodec == InitCodec /\ [][NextCodec]_vars

\* A template in field mode: it has a length and every entry outside the
\* reserved ones is a field with a position and a length.
FieldMode(t) ==
    /\ t.length # NoLength /\ ~t.scalar
    /\ \A i \in DOMAIN t.fields :
          t.fields[i].dict /\ t.fields[i].position # 0 /\ t.fields[i].length # 0

\* One argument per field, each within the field's nibble width.
Fits(t, as) ==
    /\ Len(as) = Len(t.fields)
    /\ \A i \in DOMAIN as : Len(as[i]) <= t.fields[i].length

\* C1: for a field-mode template and fitting arguments, decode(encode(command,
\* args)) has type = command and every field equal to its argument, and
\* encoding the decoded fields again gives the same wire string.
C1_RoundTrip ==
    (FieldMode(cmd) /\ Fits(cmd, args)) =>
        /\ cphase \in {"encoded", "decoded", "reencoded"} => wire.ok
        /\ cphase \in {"decoded", "reencoded"} =>
              /\ decoded.ok /\ decoded.hasType /\ decoded.type = cmd.name
              /\ Len(decoded.fields) = Len(args)
              /\ \A i \in DOMAIN args :
                    /\ decoded.fields[i].name = cmd.fields[i].name
                    /\ decoded.fields[i].value = args[i]
        /\ cphase = "reencoded" => rewire.ok /\ rewire.data = wire.data

C1_Witness ==
    /\ cphase = "reencoded" /\ FieldMode(cmd) /\ Fits(cmd, args)
    /\ Len(args) = 3 /\ args[2] = <<15>> /\ args[3] = <<1, 2, 3>>
    /\ rewire.ok /\ rewire.data = wire.data

-----------------------------------------------------------------------------
(* data.py: States, AvailableStations, ModelAndVersion.                      *)

MAX_ZONES == 32

\* (the highest bit of a byte first)
RECURSIVE StatesBitsMsb(_)
StatesBitsMsb(rest) ==
    IF rest = <<>> THEN <<>>
    ELSE [i \in 1..8 |-> BitAnd(2 ^ (8 - i), ToNat(Slice(rest, 0, 2))) # 0]
            \o StatesBitsMsb(Slice(rest, 2, Len(rest)))

\* States.__init__: the mask is read two digits at a time, each byte giving
\* eight states, least significant bit first.
RECURSIVE StatesBits(_)
StatesBits(rest) ==
    IF rest = <<>> THEN <<>>
    ELSE [i \in 1..8 |-> BitAnd(2 ^ (i - 1), ToNat(Slice(rest, 0, 2))) # 0]
            \o StatesBits(Slice(rest, 2, Len(rest)))

States(mask) == [count |-> Len(mask) * 4, mask |-> StripZeros(mask),
                 states |-> StatesBits(mask)]

\* self.states[number - 1] raises IndexError when the index is below
\* -len(self.states).
active_raises(st, number) ==
    number <= Len(st.states) /\ number - 1 < -Len(st.states)

\* States.active where it returns: states[number - 1], an index below zero
\* counting from the end of the tuple.
active(st, number) ==
    IF number > Len(st.states) THEN FALSE
    ELSE st.states[IF number >= 1 THEN number ELSE Len(st.states) + number]

active_set(st) == {number \in 1..MAX_ZONES : active(st, number)}

AvailableStations(mask) == [stations |-> States(mask)]

\* ModelAndVersion and its model_info: the entry of RAINBIRD_MODELS for the
\* model (a packaged table); max_programs is the entry's program count.
ModelAndVersion(modelID, major, minor, programs) ==
    [model |-> modelID, major |-> major, minor |-> minor,
     model_info |-> [max_programs |-> programs]]

-----------------------------------------------------------------------------
(* The device: what it may answer to a tunnelSip request.                    *)

MaxPrograms == 3    \* the largest program count of a device model
MaxFaults == 1      \* off-nominal answers the device gives in one pass
MaxPasses == 2      \* get_schedule calls on one controller

Byte(n) == FormatHex(FromNat(n), 2)
Word(n) == FormatHex(FromNat(n), 4)

\* The station masks the device reports: stations 1..5, stations 1..2.
StationMasks == { <<1,15,0,0,0,0,0,0>>, <<0,3,0,0,0,0,0,0>> }

\* Program info per program (daysOfWeekMask, period, synchro, days off,
\* reserved, frequency): a cyclic program, a custom program, empty ones.
ProgramInfoPayload(p) ==
    IF p = 0 THEN <<6,10, 0,6, 0,2, 0,0, 6,4, 0,1>>
    ELSE IF p = 1 THEN <<7,15, 0,3, 0,0, 0,0, 6,4, 0,0>>
    ELSE <<0,0, 0,3, 0,0, 0,0, 6,4, 0,0>>

\* Start times per program: 04:00 and three unused slots, or four unused.
StartInfoPayload(p) ==
    IF p = 0 THEN Word(240) \o Word(65535) \o Word(65535) \o Word(65535)
    ELSE Word(65535) \o Word(65535) \o Word(65535) \o Word(65535)

\* Minutes of program 0 in zone z (0-based); every other program is zero.
ZoneMinutes(z) ==
    CASE z = 0 -> 25 [] z = 1 -> 20 [] z = 2 -> 7 [] z = 3 -> 20 [] z = 4 -> 10
      [] OTHER -> 0

RECURSIVE Repeat(_, _)
Repeat(s, n) == IF n <= 0 THEN <<>> ELSE s \o Repeat(s, n - 1)

\* Durations of a page: one entry per program for each of its two zones.
DurationsPayload(page, programs) ==
    LET half(z) == IF programs = 0 THEN <<>>
                   ELSE Word(ZoneMinutes(z)) \o Repeat(Word(0), programs - 1)
    IN  half(2 * page) \o half(2 * page + 1)

SchedulePayload(sub, programs) ==
    IF sub = 0 THEN <<0,0,0,0, 0,4, 0,0>>
    ELSE IF BitAnd(sub, 16) = 16 THEN ProgramInfoPayload(BitNot(sub, 16))
    ELSE IF BitAnd(sub, 96) = 96 THEN StartInfoPayload(BitNot(sub, 96))
    ELSE IF BitAnd(sub, 128) = 128 THEN DurationsPayload(BitNot(sub, 128), programs)
    ELSE <<>>

\* The answers of a healthy device to a request.
NominalAnswers(request, programs) ==
    LET code == Slice(request, 0, 2) IN
    IF code = <<0,2>> THEN { <<8,2, 0,0,0,10, 0,1, 0,3>> }
    ELSE IF code = <<0,3>> THEN { <<8,3, 0,0>> \o m : m \in StationMasks }
    ELSE IF code = <<2,0>>
         THEN { <<10,0>> \o Slice(request, 2, 6)
                    \o SchedulePayload(ToNat(Slice(request, 4, 6)), programs) }
    ELSE {}

\* Off-nominal answers: the answer cut after its code or after its header, a
\* schedule answer with a sub-command no mask matches, a NACK, a NACK cut
\* after its code, a code the registry does not hold.
FaultAnswers(request, programs) ==
    UNION { { Slice(a, 0, 2), Slice(a, 0, 6) } : a \in NominalAnswers(request, programs) }
    \cup { <<10,0, 0,0, 2,0>>,
           <<0,0>> \o Slice(request, 0, 2) \o <<0,4>>,
           <<0,0>>,
           <<15,1, 0,0, 0,0, 0,0, 0,0>> }

-----------------------------------------------------------------------------
(* data.py: Schedule.from_dict (__pre_deserialize__, then the fields of      *)
(* Schedule, Program, ControllerInfo and ZoneDuration).                      *)

NoneValue == -1     \* Python's None in an Optional[int] field

CUSTOM == 0
CYCLIC == 1
ODD == 2
EVEN == 3

\* get_schedule's empty aggregate; present: controllerInfo was updated.
EmptyControllerInfo ==
    [present |-> FALSE, stationDelay |-> 0, rainDelay |-> 0, rainSensor |-> 0]
EmptyScheduleData ==
    [controllerInfo |-> EmptyControllerInfo, programInfo |-> <<>>,
     programStartInfo |-> <<>>, durations |-> <<>>]

\* A programInfo dictionary; the keys __pre_deserialize__ may add start out
\* absent (hasStarts, hasDurations).
ProgramDict(frag) ==
    [program |-> frag.program, daysOfWeekMask |-> frag.daysOfWeekMask,
     period |-> frag.period, synchro |-> frag.synchro,
     frequency |-> frag.frequency, hasStarts |-> FALSE, starts |-> <<>>,
     controllerInfo |-> EmptyControllerInfo, durations |-> <<>>]

PreRaised(e) == [ok |-> FALSE, exc |-> e, programInfo |-> <<>>]
PreOk(ps) == [ok |-> TRUE, exc |-> "", programInfo |-> ps]

\* for program_start_info in programs: values["programInfo"][program][...] = ...
RECURSIVE AttachStarts(_, _, _)
AttachStarts(ps, starts, info) ==
    IF starts = <<>> THEN PreOk(ps)
    ELSE LET s == Head(starts) IN
         IF s.program >= Len(ps) THEN PreRaised("IndexError")
         ELSE AttachStarts(
                [ps EXCEPT ![s.program + 1].starts = s.startTime,
                           ![s.program + 1].hasStarts = TRUE,
                           ![s.program + 1].controllerInfo = info],
                Tail(starts), info)

\* for program in range(0, len(programs)): ...[program]["durations"] = []
ResetDurations(ps, n) ==
    IF n > Len(ps) THEN PreRaised("IndexError")
    ELSE PreOk([i \in DOMAIN ps |->
                  IF i <= n THEN [ps[i] EXCEPT !.durations = <<>>] ELSE ps[i]])

\* (a duration of zero minutes is appended like any other)
AttachZoneAll(ps, zd, n) ==
    IF Len(zd.durations) # n THEN ps
    ELSE [i \in DOMAIN ps |->
            IF i <= n
            THEN [ps[i] EXCEPT !.durations =
                    Append(@, [zone |-> zd.zone + 1, duration |-> zd.durations[i]])]
            ELSE ps[i]]

\* One zone's durations: skipped when their number is not the number of
\* programs, else each non-zero duration is appended to its program.
AttachZone(ps, zd, n) ==
    IF Len(zd.durations) # n THEN ps
    ELSE [i \in DOMAIN ps |->
            IF i <= n /\ zd.durations[i] # 0
            THEN [ps[i] EXCEPT !.durations =
                    Append(@, [zone |-> zd.zone + 1, duration |-> zd.durations[i]])]
            ELSE ps[i]]

RECURSIVE AttachDurations(_, _, _)
AttachDurations(ps, zds, n) ==
    IF zds = <<>> THEN ps
    ELSE AttachDurations(AttachZone(ps, Head(zds), n), Tail(zds), n)

\* The three loops of __pre_deserialize__, each on the result of the one
\* before; an exception ends the method.
PreDurations(r, values) ==
    IF ~r.ok THEN r
    ELSE PreOk(AttachDurations(r.programInfo, values.durations,
                               Len(values.programStartInfo)))

PreReset(a, values) ==
    IF ~a.ok THEN a
    ELSE PreDurations(ResetDurations(a.programInfo, Len(values.programStartInfo)),
                      values)

ProgramDicts(values) ==
    [i \in DOMAIN values.programInfo |-> ProgramDict(values.programInfo[i])]

pre_deserialize(values) ==
    IF values.programStartInfo = <<>> THEN PreOk(ProgramDicts(values))
    ELSE PreReset(AttachStarts(ProgramDicts(values), values.programStartInfo,
                               values.controllerInfo),
                  values)

\* TimeSerializationStrategy.deserialize: 65535 is dropped, every other
\* value is a minute of the day (datetime.time refuses an hour above 23).
TimeOk(starts) == \A i \in DOMAIN starts : starts[i] = 65535 \/ starts[i] < 1440
\* datetime.time(hour=..., minute=...)
time(hour, minute) == [hour |-> hour, minute |-> minute]
time_of(start) == time(start \div 60, start % 60)
DeserializeTimes(starts) ==
    [i \in DOMAIN SelectSeq(starts, LAMBDA s : s # 65535) |->
        time_of(SelectSeq(starts, LAMBDA s : s # 65535)[i])]

\* DayOfWeekSerializationStrategy.deserialize: bit d of the mask is day d.
DeserializeDays(mask) == {day \in 0..6 : BitAnd(mask, 2 ^ day) # 0}

ControllerInfo(d) ==
    [station_delay |-> d.stationDelay, rain_delay |-> d.rainDelay,
     rain_sensor |-> d.rainSensor # 0]

\* (the fields as the device sent them, whatever the frequency)
ProgramAsSent(d) ==
    [program |-> d.program, frequency |-> d.frequency,
     days_of_week |-> DeserializeDays(d.daysOfWeekMask),
     period |-> d.period,
     synchro |-> d.synchro,
     starts |-> DeserializeTimes(d.starts),
     durations |-> d.durations,
     controller_info |-> ControllerInfo(d.controllerInfo)]

\* Program.from_dict and __post_init__.
Program(d) ==
    [program |-> d.program, frequency |-> d.frequency,
     days_of_week |-> IF d.frequency # CUSTOM THEN {}
                      ELSE DeserializeDays(d.daysOfWeekMask),
     period |-> IF d.frequency # CYCLIC THEN NoneValue ELSE d.period,
     synchro |-> d.synchro,
     starts |-> DeserializeTimes(d.starts),
     durations |-> d.durations,
     controller_info |-> ControllerInfo(d.controllerInfo)]

ScheduleRaised(e) == [ok |-> FALSE, exc |-> e, controller_info |-> <<>>,
                      programs |-> <<>>]

\* The fields of the Schedule from the prepared dictionary.
Deserialize(values, pre) ==
    IF ~pre.ok THEN ScheduleRaised(pre.exc)
    ELSE IF \E i \in DOMAIN pre.programInfo :
                \/ pre.programInfo[i].frequency \notin {CUSTOM, CYCLIC, ODD, EVEN}
                \/ ~TimeOk(pre.programInfo[i].starts)
         THEN ScheduleRaised("ValueError")
    ELSE [ok |-> TRUE, exc |-> "",
          controller_info |-> ControllerInfo(values.controllerInfo),
          programs |-> [i \in DOMAIN pre.programInfo |-> Program(pre.programInfo[i])]]

Schedule_from_dict(values) == Deserialize(values, pre_deserialize(values))

-----------------------------------------------------------------------------
(* async_client.py: _process_command, _cacheable_command, get_schedule.      *)

\* self._cache, a dictionary from keys f"{command}-{args}" to results.
\* A result Python takes for false: the integer 0 (an empty digit string);
\* the data classes are always true.
Truthy(v) == v # <<>>

\* if result := self._cache.get(key)
CacheHit(c, key) == key \in DOMAIN c /\ Truthy(c[key])
CachePut(c, key, v) ==
    [k \in DOMAIN c \cup {key} |-> IF k = key THEN v ELSE c[k]]

ModelKey == "ModelAndVersionRequest-()"
StationsKey == "AvailableStationsRequest-(0,)"

NoCall == [command |-> "", request |-> <<>>, response |-> <<>>,
           decoded |-> DecodeRaised(""), result |-> "none", handled |-> FALSE]

\* The allowed response codes of a call.
Allowed(funct_is_none, command) ==
    {Template(command).response} \cup (IF funct_is_none THEN {<<0,0>>} ELSE {})

\* (the handler applied whatever the response code is)
CheckResponseNever(command, request, response, msg, allowed) ==
    [command |-> command, request |-> request, response |-> response,
     decoded |-> msg,
     result |-> IF ~msg.ok THEN msg.exc ELSE "returned",
     handled |-> msg.ok]

\* _process_command from the decoded reply on: the response code is compared
\* with the allowed ones, then the handler is applied.
CheckResponse(command, request, response, msg, allowed) ==
    [command |-> command, request |-> request, response |-> response,
     decoded |-> msg,
     result |-> IF ~msg.ok THEN msg.exc
                ELSE IF Slice(response, 0, 2) \notin allowed
                     THEN "RainbirdApiException"
                ELSE "returned",
     handled |-> msg.ok /\ Slice(response, 0, 2) \in allowed]

\* _process_command from the reply on: decode comes first.
process_command(funct_is_none, command, request, response) ==
    CheckResponse(command, request, response, decode(response),
                  Allowed(funct_is_none, command))

\* response[key] in a handler: KeyError when the decoded message has no such
\* field.
HasKeys(msg, keys) ==
    \A k \in keys : \E i \in DOMAIN msg.fields : msg.fields[i].name = k
Get(msg, key) ==
    msg.fields[CHOOSE i \in DOMAIN msg.fields : msg.fields[i].name = key].value
KeyError(call) == [call EXCEPT !.result = "KeyError"]

\* (the request goes out and the coroutine runs on)
NoAwait(waiting, running) == running

\* await self._tunnelSip(...): the coroutine is suspended until the reply.
Await(waiting, running) == waiting

BitOr(x, y) == x + y - BitAnd(x, y)

\* int(round(n / 2, 0)): round half to even.
RoundHalf(n) ==
    LET q == n \div 2 IN
    IF n % 2 = 0 THEN q ELSE IF q % 2 = 0 THEN q ELSE q + 1

RECURSIVE Range(_, _)
Range(a, b) == IF a >= b THEN <<>> ELSE <<a>> \o Range(a + 1, b)

HexLower(n) == FormatHex(FromNat(n), 4)     \* "%04x" % n

\* (start times asked before program details)
ScheduleCommandsSwapped(programs, max_stations) ==
    << <<0, 0>> >>
      \o [i \in 1..programs |-> HexLower(BitOr(96, i - 1))]
      \o [i \in 1..programs |-> HexLower(BitOr(16, i - 1))]
      \o [i \in 1..RoundHalf(max_stations) |-> HexLower(BitOr(128, i - 1))]

\* get_schedule's list of sub-commands.
ScheduleCommands(programs, max_stations) ==
    << <<0, 0>> >>
      \o [i \in 1..programs |-> HexLower(BitOr(16, i - 1))]
      \o [i \in 1..programs |-> HexLower(BitOr(96, i - 1))]
      \o [i \in 1..RoundHalf(max_stations) |-> HexLower(BitOr(128, i - 1))]

MaxStations == 22

\* (every duration entry is kept, whatever the active stations)
RouteFragmentAll(data, frag, st) ==
    CASE frag.kind = "controllerInfo" ->
            [data EXCEPT !.controllerInfo =
                [present |-> TRUE, stationDelay |-> frag.stationDelay,
                 rainDelay |-> frag.rainDelay, rainSensor |-> frag.rainSensor]]
      [] frag.kind = "programInfo" ->
            [data EXCEPT !.programInfo = Append(@, frag)]
      [] frag.kind = "programStartInfo" ->
            [data EXCEPT !.programStartInfo = Append(@, frag)]
      [] frag.kind = "durations" ->
            [data EXCEPT !.durations = @ \o frag.entries]
      [] OTHER -> data

\* The loop body of get_schedule on a handler result: the fragment goes to
\* its key of the aggregate; a result without one of the keys adds nothing.
RouteFragment(data, frag, st) ==
    CASE frag.kind = "controllerInfo" ->
            [data EXCEPT !.controllerInfo =
                [present |-> TRUE, stationDelay |-> frag.stationDelay,
                 rainDelay |-> frag.rainDelay, rainSensor |-> frag.rainSensor]]
      [] frag.kind = "programInfo" ->
            [data EXCEPT !.programInfo = Append(@, frag)]
      [] frag.kind = "programStartInfo" ->
            [data EXCEPT !.programStartInfo = Append(@, frag)]
      [] frag.kind = "durations" ->
            [data EXCEPT !.durations =
                @ \o SelectSeq(frag.entries,
                               LAMBDA e : (e.zone + 1) \in active_set(st.stations))]
      [] OTHER -> data

NoSchedule == ScheduleRaised("")
NoStations == AvailableStations(<<>>)

-----------------------------------------------------------------------------
(* Spec: one controller and its device.  get_schedule is a coroutine; pc is  *)
(* its position, each await of a reply a pair of actions (the request goes   *)
(* out, the reply comes back and the coroutine runs to its next await).      *)

Init ==
    /\ pc = "idle" /\ cache = <<>> /\ commands = <<>> /\ idx = 0
    /\ inflight = <<>> /\ sent = <<>> /\ schedule_data = EmptyScheduleData
    /\ stations = NoStations /\ max_programs = 0 /\ outcome = "none"
    /\ schedule = NoSchedule /\ lastCall = NoCall /\ passes = 0 /\ faults = 0
    /\ CodecAtRest /\ TlAtRest

\* What the device may answer now, and whether an answer is off-nominal.
Answers(request) ==
    NominalAnswers(request, max_programs)
        \cup (IF faults < MaxFaults THEN FaultAnswers(request, max_programs) ELSE {})
IsFault(request, response) == response \notin NominalAnswers(request, max_programs)

\* The request of _process_command(funct, command, *args) goes out.
Request_(command, as, waiting) ==
    \E data \in {encode(command, as)} :
    /\ data.ok
    /\ inflight' = Append(inflight, data.data)
    /\ sent' = Append(sent, data.data)
    /\ pc' = Await(waiting, pc)

\* The call raised: get_schedule ends with the exception.
Raise(call) ==
    /\ pc' = "idle" /\ outcome' = call.result /\ lastCall' = call

\* get_schedule is called.
GetSchedule ==
    /\ pc = "idle" /\ passes < MaxPasses
    /\ pc' = "model" /\ passes' = passes + 1
    /\ commands' = <<>> /\ idx' = 0 /\ sent' = <<>> /\ faults' = 0
    /\ schedule_data' = EmptyScheduleData /\ stations' = NoStations
    /\ max_programs' = 0 /\ outcome' = "running" /\ schedule' = NoSchedule
    /\ lastCall' = NoCall
    /\ UNCHANGED <<cache, inflight, codecVars, tlVars>>

\* get_model_and_version: a cached result is returned ...
GetModelCached ==
    /\ pc = "model" /\ CacheHit(cache, ModelKey)
    /\ max_programs' = cache[ModelKey].model_info.max_programs
    /\ pc' = "stations"
    /\ UNCHANGED <<cache, commands, idx, inflight, sent, schedule_data, stations,
                   outcome, schedule, lastCall, passes, faults, codecVars, tlVars>>

\* ... or the request is sent,
GetModelRequest ==
    /\ pc = "model" /\ ~CacheHit(cache, ModelKey)
    /\ Request_("ModelAndVersionRequest", <<>>, "model_wait")
    /\ UNCHANGED <<cache, commands, idx, schedule_data, stations, max_programs,
                   outcome, schedule, lastCall, passes, faults, codecVars, tlVars>>

\* and its reply handled and cached.
GetModelResponse ==
    /\ pc = "model_wait" /\ inflight # <<>>
    /\ \E response \in Answers(Head(inflight)), programs \in 0..MaxPrograms :
         \E call \in {process_command(FALSE, "ModelAndVersionRequest",
                                      Head(inflight), response)} :
             /\ inflight' = Tail(inflight)
             /\ faults' = faults + (IF IsFault(Head(inflight), response) THEN 1 ELSE 0)
             /\ IF call.result # "returned"
                THEN Raise(call) /\ UNCHANGED <<cache, max_programs>>
                ELSE IF ~HasKeys(call.decoded, {"modelID", "protocolRevisionMajor",
                                                "protocolRevisionMinor"})
                THEN Raise(KeyError(call)) /\ UNCHANGED <<cache, max_programs>>
                ELSE \E model \in {ModelAndVersion(
                                       Get(call.decoded, "modelID"),
                                       Get(call.decoded, "protocolRevisionMajor"),
                                       Get(call.decoded, "protocolRevisionMinor"),
                                       programs)} :
                         /\ cache' = CachePut(cache, ModelKey, model)
                         /\ max_programs' = model.model_info.max_programs
                         /\ pc' = "stations" /\ lastCall' = call
                         /\ UNCHANGED outcome
    /\ UNCHANGED <<commands, idx, sent, schedule_data, stations, schedule,
                   passes, codecVars, tlVars>>

\* The lines of get_schedule between the stations and the first sub-command.
EnterLoop(st) ==
    /\ stations' = st
    /\ commands' = ScheduleCommands(max_programs, Min(st.stations.count, MaxStations))
    /\ schedule_data' = EmptyScheduleData
    /\ idx' = 0
    /\ pc' = "loop"

GetStationsCached ==
    /\ pc = "stations" /\ CacheHit(cache, StationsKey)
    /\ EnterLoop(cache[StationsKey])
    /\ UNCHANGED <<cache, inflight, sent, max_programs, outcome, schedule,
                   lastCall, passes, faults, codecVars, tlVars>>

GetStationsRequest ==
    /\ pc = "stations" /\ ~CacheHit(cache, StationsKey)
    /\ Request_("AvailableStationsRequest", << <<>> >>, "stations_wait")
    /\ UNCHANGED <<cache, commands, idx, schedule_data, stations, max_programs,
                   outcome, schedule, lastCall, passes, faults, codecVars, tlVars>>

GetStationsResponse ==
    /\ pc = "stations_wait" /\ inflight # <<>>
    /\ \E response \in Answers(Head(inflight)) :
         \E call \in {process_command(FALSE, "AvailableStationsRequest",
                                      Head(inflight), response)} :
             /\ inflight' = Tail(inflight)
             /\ faults' = faults + (IF IsFault(Head(inflight), response) THEN 1 ELSE 0)
             /\ IF call.result # "returned"
                THEN /\ Raise(call)
                     /\ UNCHANGED <<cache, stations, commands, schedule_data, idx>>
                ELSE IF ~HasKeys(call.decoded, {"setStations"})
                THEN /\ Raise(KeyError(call))
                     /\ UNCHANGED <<cache, stations, commands, schedule_data, idx>>
                ELSE \E st \in {AvailableStations(
                                     FormatHex(Get(call.decoded, "setStations"), 8))} :
                         /\ cache' = CachePut(cache, StationsKey, st)
                         /\ EnterLoop(st) /\ lastCall' = call
                         /\ UNCHANGED outcome
    /\ UNCHANGED <<sent, max_programs, schedule, passes, codecVars, tlVars>>

\* for command in commands: the sub-command's request goes out ...
SendSubCommand ==
    /\ pc = "loop" /\ idx < Len(commands)
    /\ Request_("RetrieveScheduleRequest", <<StripZeros(commands[idx + 1])>>,
                "loop_wait")
    /\ UNCHANGED <<cache, commands, idx, schedule_data, stations, max_programs,
                   outcome, schedule, lastCall, passes, faults, codecVars, tlVars>>

\* ... and its reply is routed; after the last one the Schedule is built.
ScheduleResponse ==
    /\ pc = "loop_wait" /\ inflight # <<>>
    /\ \E response \in Answers(Head(inflight)) :
         \E call \in {process_command(FALSE, "RetrieveScheduleRequest",
                                      Head(inflight), response)} :
             /\ inflight' = Tail(inflight)
             /\ faults' = faults + (IF IsFault(Head(inflight), response) THEN 1 ELSE 0)
             /\ IF call.result # "returned"
                THEN Raise(call) /\ UNCHANGED <<schedule_data, idx, schedule>>
                ELSE \E data \in {RouteFragment(schedule_data, call.decoded.frag,
                                                 stations)} :
                         /\ schedule_data' = data
                         /\ idx' = idx + 1
                         /\ lastCall' = call
                         /\ IF idx + 1 < Len(commands)
                            THEN pc' = "loop" /\ UNCHANGED <<outcome, schedule>>
                            ELSE \E built \in {Schedule_from_dict(data)} :
                                 /\ pc' = "idle"
                                 /\ schedule' = built
                                 /\ outcome' = IF built.ok THEN "returned"
                                               ELSE built.exc
    /\ UNCHANGED <<cache, commands, sent, stations, max_programs, passes,
                   codecVars, tlVars>>

Next ==
    \/ GetSchedule
    \/ GetModelCached \/ GetModelRequest \/ GetModelResponse
    \/ GetStationsCached \/ GetStationsRequest \/ GetStationsResponse
    \/ SendSubCommand \/ ScheduleResponse

Spec == Init /\ [][Next]_vars

-----------------------------------------------------------------------------
(* Properties of Spec.                                                       *)

IsPrefix(s, t) == Len(s) <= Len(t) /\ \A i \in DOMAIN s : s[i] = t[i]

IsScheduleRequest(request) == Slice(request, 0, 2) = <<2,0>>

\* The sub-commands of the RetrieveSchedule requests sent so far, in order.
SubCommandsSent ==
    LET sel == SelectSeq(sent, IsScheduleRequest)
    IN  [i \in DOMAIN sel |-> ToNat(Slice(sel[i], 2, 6))]

\* A schedule answer (code A0) that is not the well-formed one of its request.
BadFragment(call) ==
    /\ call.command = "RetrieveScheduleRequest"
    /\ Slice(call.response, 0, 2) = <<10,0>>
    /\ call.response \notin NominalAnswers(call.request, max_programs)

\* C2: a malformed, truncated or unrecognized schedule answer does not fail
\* the pass: after such an answer get_schedule is still running or has
\* returned a Schedule.
C2_BadFragmentSkipped ==
    BadFragment(lastCall) => outcome \in {"running", "returned"}

ResponseCodeMatches(call) ==
    Slice(call.response, 0, 2) = Template(call.command).response

C4_NackAccepted ==
    (/\ lastCall.command = "RetrieveScheduleRequest"
     /\ Slice(lastCall.response, 0, 2) = <<0,0>>
     /\ lastCall.decoded.ok)
        => outcome \in {"running", "returned"}

\* C5: at most one request is outstanding at the device; a request goes out
\* only when every earlier one has been answered, and sub-request k + 1 only
\* after the answer to sub-request k was handled.
C5_OneInFlight ==
    /\ Len(inflight) <= 1
    /\ Len(SubCommandsSent) <= idx + 1
    /\ pc \in {"model", "stations", "loop"} => inflight = <<>>
    /\ pc = "loop" => Len(SubCommandsSent) = idx

C5_Witness ==
    /\ pc = "loop_wait" /\ idx = 2 /\ Len(inflight) = 1
    /\ Len(SubCommandsSent) = 3

\* The sequence C6 names, for P programs and S stations.
ExpectedSubCommands(P, S) ==
    <<0>> \o [p \in 1..P |-> BitOr(16, p - 1)]
          \o [p \in 1..P |-> BitOr(96, p - 1)]
          \o [z \in 1..((S + 1) \div 2) |-> BitOr(128, z - 1)]

\* C6: the RetrieveSchedule sub-commands a pass sends are 0x00, 0x10|p and
\* then 0x60|p for the programs in ascending order, 0x80|z for the pages of
\* the (at most 22) stations: always a prefix of that sequence, the whole of
\* it when the pass returns, and all of them after the model and station
\* queries.
C6_SubCommandSequence ==
    LET expected == ExpectedSubCommands(max_programs,
                                        Min(stations.stations.count, 22))
    IN  /\ IsPrefix(SubCommandsSent, expected)
        /\ outcome = "returned" => SubCommandsSent = expected
        /\ \A i, j \in DOMAIN sent :
              (i < j /\ IsScheduleRequest(sent[i])) => IsScheduleRequest(sent[j])

C6_Witness ==
    /\ outcome = "returned" /\ max_programs = 3
    /\ Len(SubCommandsSent) = 18
    /\ SubCommandsSent[4] = 18 /\ SubCommandsSent[7] = 98
    /\ SubCommandsSent[18] = 138
    /\ Len(sent) = 20

-----------------------------------------------------------------------------
(* timespan.py: Timespan; timeline.py: ProgramTimeline.overlapping.  An item *)
(* of a timeline is a span with the event it stands for: start, end and the  *)
(* program (and zone) of the event.                                          *)

Timespan(start, end) == [start |-> start, end |-> end]

Item(start, end, program, zone) ==
    [start |-> start, end |-> end, program |-> program, zone |-> zone]

\* (an item that only touches the window counts as well)
intersects_closed(self, other) ==
    \/ other.start <= self.start /\ self.start <= other.end
    \/ other.start <= self.end /\ self.end <= other.end
    \/ self.start <= other.start /\ other.start <= self.end
    \/ self.start <= other.end /\ other.end <= self.end

\* Timespan.intersects
intersects(self, other) ==
    \/ other.start <= self.start /\ self.start < other.end
    \/ other.start < self.end /\ self.end <= other.end
    \/ self.start <= other.start /\ other.start < self.end
    \/ self.start < other.end /\ other.end <= self.end

\* Timespan.__gt__: (self.start, self.end) > (other.start, other.end)
gt(self, other) ==
    \/ self.start > other.start
    \/ self.start = other.start /\ self.end > other.end

\* The places of a sequence, in order.
Places(s) == [i \in DOMAIN s |-> i]

\* Where the loop of ProgramTimeline.overlapping ends: at the first item that
\* does not intersect the window and sorts after it, else past the last item.
overlapping_break(items, timespan, breaks) ==
    IF breaks = <<>> THEN Len(items) + 1 ELSE breaks[1]

\* The items the loop yields: those before its end that intersect the window.
overlapping_loop(items, timespan, stop) ==
    SelectSeq(SubSeq(items, 1, stop - 1), LAMBDA item : intersects(item, timespan))

\* ProgramTimeline.overlapping on the items of the iterable.
overlapping_in(items, timespan) ==
    overlapping_loop(
        items, timespan,
        overlapping_break(
            items, timespan,
            SelectSeq(Places(items),
                      LAMBDA i : /\ ~intersects(items[i], timespan)
                                 /\ gt(items[i], timespan))))

overlapping(items, start, end) == overlapping_in(items, Timespan(start, end))

NoQuery == [called |-> FALSE, start |-> 0, end |-> 0, result |-> <<>>]
Query(start, end, result) ==
    [called |-> TRUE, start |-> start, end |-> end, result |-> result]

\* A timeline given by its items (an iterable that is a list).
ListTimeline(items) == [kind |-> "list", items |-> items]
NoTimeline == [kind |-> "none"]

-----------------------------------------------------------------------------
(* Dates.  Day 0 is 2023-01-01, a Sunday; a date-time is day * 1440 + the    *)
(* minute of the day.                                                        *)

Horizon == 41       \* last day a recurrence is generated for

MinutesPerDay == 24 * 60

DayOf(t) == t \div MinutesPerDay
MinuteOf(t) == t % MinutesPerDay
At(day, minute) == day * MinutesPerDay + minute

\* now.replace(hour=t.hour, minute=t.minute, second=0) on a day
replace(day, t) == At(day, t.hour * 60 + t.minute)

\* DayOfWeek of a day: SUNDAY = 0 ... SATURDAY = 6.
WeekdayOf(day) == day % 7

\* Day of the month, December 2022 to March 2023.
DayOfMonth(day) ==
    IF day < 0 THEN day + 32
    ELSE IF day < 31 THEN day + 1
    ELSE IF day < 59 THEN day - 30
    ELSE day - 58

\* The list the nested loops of a function append to.
RECURSIVE Concat(_)
Concat(lists) ==
    IF lists = <<>> THEN <<>> ELSE Head(lists) \o Concat(Tail(lists))

\* The elements of a sequence at the places given.
Pick(s, places) == [n \in DOMAIN places |-> s[places[n]]]

\* A sequence without the elements equal to the one before them.
Distinct(s) ==
    Pick(s, SelectSeq(Places(s), LAMBDA i : i = 1 \/ s[i] # s[i - 1]))

\* The days from a day to the horizon.
DaysFrom(day) == [i \in 1..(Horizon - day + 1) |-> day + i - 1]

RECURSIVE Sum(_)
Sum(s) == IF s = <<>> THEN 0 ELSE Head(s) + Sum(Tail(s))

-----------------------------------------------------------------------------
(* dateutil.rrule as timeline.py uses it: a rule is the increasing sequence  *)
(* of its date-times from dtstart on (here up to the horizon), at dtstart's  *)
(* time of day and microsecond 0; a rule set is the union of its rules       *)
(* without the excluded date-times.                                          *)

\* rrule(freq=DAILY, interval=interval, dtstart=dtstart)
rrule_daily(interval, dtstart) ==
    [i \in 1..((Horizon - DayOf(dtstart)) \div interval + 1) |->
        dtstart + (i - 1) * interval * MinutesPerDay]

\* The date-times of a rule on the days of it, at dtstart's time of day.
OnDays(days, dtstart) == [i \in DOMAIN days |-> At(days[i], MinuteOf(dtstart))]

\* dateutil numbers the weekdays from Monday: MO = 0 ... SU = 6.
weekday(day) == (day + 6) % 7

\* timeline.py: RRULE_WEEKDAY, DayOfWeek to the weekday of dateutil
RRULE_WEEKDAY(day_of_week) == (day_of_week + 6) % 7

\* rrule(freq=WEEKLY, byweekday=byweekday, dtstart=dtstart); an empty
\* byweekday leaves every day of the week.
rrule_weekly(byweekday, dtstart) ==
    OnDays(SelectSeq(DaysFrom(DayOf(dtstart)),
                     LAMBDA d : byweekday = {} \/ weekday(d) \in byweekday),
           dtstart)

\* rrule(freq=MONTHLY, bymonthday=bymonthday, dtstart=dtstart)
rrule_monthly(bymonthday, dtstart) ==
    OnDays(SelectSeq(DaysFrom(DayOf(dtstart)),
                     LAMBDA d : DayOfMonth(d) \in bymonthday),
           dtstart)

\* ruleset.exdate(dtstart): dtstart keeps the microsecond of now(), a rule's
\* date-times have none, so the date is excluded only when now() has none.
exdate(dtstart, us) == IF us = 0 THEN {dtstart} ELSE {}

Range_(s) == { s[i] : i \in DOMAIN s }

\* Iterating an rruleset: the rules, each increasing, merged into one
\* increasing sequence, equal date-times once, the excluded ones left out.
rruleset(rrules, exdates) ==
    SelectSeq(Distinct(SortSeq(Concat(rrules), LAMBDA a, b : a < b)),
              LAMBDA t : t \notin exdates)

\* RecurIterable: item_cb on every date-time of the rule set.
RecurIterable(duration, recur) ==
    [i \in DOMAIN recur |-> Item(recur[i], recur[i] + duration, NoneValue, NoneValue)]

\* A timeline over a RecurIterable, kept as the rule set it iterates.
RecurTimeline(mode, rrules, exdates, duration) ==
    [kind |-> "recur", mode |-> mode, rrules |-> rrules, exdates |-> exdates,
     duration |-> duration]

\* first_day.replace(hour=..., minute=..., second=0) for each time of day,
\* first_day = now + synchro days.
dtstarts(now_day, times_of_day, synchro) ==
    [i \in DOMAIN times_of_day |-> replace(now_day + synchro, times_of_day[i])]

\* timeline.py: cyclic_recurrence
cyclic_recurrence(interval, times_of_day, duration, synchro, now_day, us) ==
    RecurTimeline("cyclic",
        [i \in DOMAIN times_of_day |->
            rrule_daily(interval, dtstarts(now_day, times_of_day, synchro)[i])],
        UNION { exdate(dtstarts(now_day, times_of_day, synchro)[i], us) :
                  i \in DOMAIN times_of_day },
        duration)

\* timeline.py: custom_recurrence
custom_recurrence(days_of_week, times_of_day, duration, synchro, now_day, us) ==
    RecurTimeline("custom",
        [i \in DOMAIN times_of_day |->
            rrule_weekly({ RRULE_WEEKDAY(day_of_week) : day_of_week \in days_of_week },
                         dtstarts(now_day, times_of_day, synchro)[i])],
        UNION { exdate(dtstarts(now_day, times_of_day, synchro)[i], us) :
                  i \in DOMAIN times_of_day },
        duration)

\* timeline.py: odd_even_recurrence
odd_even_recurrence(odd_days, times_of_day, duration, synchro, now_day, us) ==
    RecurTimeline("odd_even",
        [i \in DOMAIN times_of_day |->
            rrule_monthly({ i2 \in 1..31 : ((i2 % 2) = 1) = odd_days },
                          dtstarts(now_day, times_of_day, synchro)[i])],
        UNION { exdate(dtstarts(now_day, times_of_day, synchro)[i], us) :
                  i \in DOMAIN times_of_day },
        duration)

-----------------------------------------------------------------------------
(* data.py: the timelines of a Program and of a Schedule.  Each start time   *)
(* has one recurrence rule; the rules are merged into one timeline.          *)

ProgramId(program, zone) == [program |-> program, zone |-> zone]

\* (the smaller of the two delays)
delay_days_min(controller_info) ==
    Min(controller_info.station_delay, controller_info.rain_delay)

\* ControllerInfo.delay_days (absent controller info has no delay).
delay_days(controller_info) ==
    Max(controller_info.station_delay, controller_info.rain_delay)
Program_delay_days(p) == delay_days(p.controller_info)
Schedule_delay_days(s) == delay_days(s.controller_info)

\* Program.duration: the sum of the zone durations.
Program_duration(p) == Sum([i \in DOMAIN p.durations |-> p.durations[i].duration])

\* The dates of one rule: CYCLIC every interval days from one interval before
\* today + synchro, CUSTOM weekly on days_of_week, ODD and EVEN monthly on the
\* odd or even days of the month, the last three from dtstart on.
recurrence_rule(frequency, dtstart, synchro, days_of_week, interval) ==
    CASE frequency = CYCLIC ->
            rrule_daily(interval, dtstart + (synchro - interval) * MinutesPerDay)
      [] frequency = CUSTOM ->
            OnDays(SelectSeq(DaysFrom(DayOf(dtstart)),
                             LAMBDA d : WeekdayOf(d) \in days_of_week),
                   dtstart)
      [] frequency = ODD ->
            rrule_monthly({ i \in 1..31 : i % 2 = 1 }, dtstart)
      [] OTHER ->
            rrule_monthly({ i \in 1..31 : i % 2 = 0 }, dtstart)

\* What a rule leaves out: dtstart itself and the days of the delay.
recurrence_excluded(rule, dtstart, delay) ==
    {dtstart} \cup { t \in Range_(rule) :
                       DayOf(t) \in DayOf(dtstart)..(DayOf(dtstart) + delay - 1) }

\* The dates of a rule that are left: the rule set of the one rule.
recurrence_dates(rule, dtstart, delay) ==
    rruleset(<<rule>>, recurrence_excluded(rule, dtstart, delay))

\* One event for each date, keyed by its span.
recurrence_events(program_id, dates, duration) ==
    [i \in DOMAIN dates |->
        Item(dates[i], dates[i] + duration, program_id.program, program_id.zone)]

\* create_recurrence: the events of one start time.
create_recurrence(program_id, frequency, dtstart, duration, synchro, days_of_week, interval, delay) ==
    recurrence_events(
        program_id,
        recurrence_dates(
            recurrence_rule(frequency, dtstart, synchro, days_of_week, interval),
            dtstart, delay),
        duration)

\* SortableItem order: by the span, start first.
key_lt(a, b) == a.start < b.start \/ (a.start = b.start /\ a.end < b.end)

\* (the iterables one after the other, not merged)
ChainedIterable(its) == Concat(its)

\* The greatest key of an iterable up to a position: heapq.merge cannot
\* yield an element before the ones in front of it.
RunningKey(it, p) ==
    it[CHOOSE q \in 1..p : \A r \in 1..p : ~key_lt(it[q], it[r])]

\* The elements of the iterables, each with its place and its running key.
Tagged(its) ==
    Concat([i \in DOMAIN its |->
              [p \in DOMAIN its[i] |->
                  [it |-> i, pos |-> p, item |-> its[i][p],
                   key |-> RunningKey(its[i], p)]]])

\* The order heapq.merge yields in: by running key, of equal keys the
\* element of the earlier iterable first.
merge_lt(a, b) ==
    \/ key_lt(a.key, b.key)
    \/ /\ ~key_lt(b.key, a.key)
       /\ (a.it < b.it \/ (a.it = b.it /\ a.pos < b.pos))

Untagged(tagged) == [n \in DOMAIN tagged |-> tagged[n].item]

\* MergedIterable: heapq.merge of the iterables; nothing is dropped.
MergedIterable(its) == Untagged(SortSeq(Tagged(its), merge_lt))

\* A timeline over a MergedIterable, kept as the iterables it merges.
MergedTimeline(mode, its) == [kind |-> "merged", mode |-> mode, iters |-> its]

\* What iteration of a timeline's iterable yields.
Items(tl) ==
    CASE tl.kind = "list" -> tl.items
      [] tl.kind = "merged" -> MergedIterable(tl.iters)
      [] tl.kind = "recur" ->
            RecurIterable(tl.duration, rruleset(tl.rrules, tl.exdates))
      [] OTHER -> <<>>

\* Program.timeline_tz
Program_timeline_tz(p, now_day) ==
    MergedTimeline("program",
        [i \in DOMAIN p.starts |->
            create_recurrence(ProgramId(p.program, NoneValue), p.frequency,
                              replace(now_day, p.starts[i]), Program_duration(p),
                              p.synchro, p.days_of_week, p.period,
                              Program_delay_days(p))])

\* Program.zone_timeline: the zones of a start time back to back.
Program_zone_timeline(p, now_day) ==
    MergedTimeline("zone",
        Concat(
            [i \in DOMAIN p.starts |->
                [z \in DOMAIN p.durations |->
                    create_recurrence(
                        ProgramId(p.program, p.durations[z].zone), p.frequency,
                        replace(now_day, p.starts[i])
                            + Sum([y \in 1..(z - 1) |-> p.durations[y].duration]),
                        p.durations[z].duration, p.synchro, p.days_of_week,
                        p.period, Program_delay_days(p))]]))

\* Schedule.timeline_tz: every start time of every program.
Schedule_timeline_tz(s, now_day) ==
    MergedTimeline("schedule",
        Concat(
            [n \in DOMAIN s.programs |->
                [i \in DOMAIN s.programs[n].starts |->
                    create_recurrence(
                        ProgramId(s.programs[n].program, NoneValue),
                        s.programs[n].frequency,
                        replace(now_day, s.programs[n].starts[i]),
                        Program_duration(s.programs[n]), s.programs[n].synchro,
                        s.programs[n].days_of_week, s.programs[n].period,
                        Schedule_delay_days(s))]]))

-----------------------------------------------------------------------------
(* SpecOverlap: overlapping(start, end) on any timeline whose items are      *)
(* non-decreasing in start.                                                  *)

MaxEvents == 3      \* items of a timeline
MaxTime == 3        \* latest start of an item
MaxDur == 2         \* longest item

\* The windows asked for, start < end.
Windows == { <<1, 2>>, <<1, 3>>, <<2, 3>> }

NonDecreasing(items) ==
    \A i \in DOMAIN items : i > 1 => items[i - 1].start <= items[i].start

SpanItems ==
    { Item(s, s + d, 0, NoneValue) : s \in 0..MaxTime, d \in 0..MaxDur }

InitOverlap ==
    /\ timeline \in { ListTimeline(items) :
                        items \in { s \in UNION { [1..n -> SpanItems] : n \in 0..MaxEvents } :
                                      NonDecreasing(s) } }
    /\ query = NoQuery /\ subject = 0
    /\ nowDay = 0 /\ nowMin = 0 /\ nowUs = 0 /\ tlSchedule = <<>>
    /\ cacheLen = 0 /\ iters = <<>>
    /\ CodecAtRest /\ CtlAtRest

\* list(timeline.overlapping(start, end)) for a window of W.
OverlappingIn(W) ==
    /\ timeline.kind # "none"
    /\ \E w \in W :
         query' = Query(w[1], w[2], overlapping(Items(timeline), w[1], w[2]))
    /\ UNCHANGED <<nowDay, nowMin, nowUs, tlSchedule, timeline, subject, cacheLen,
                   iters, codecVars, ctlVars>>

Overlapping == OverlappingIn(Windows)

NextOverlap == Overlapping

SpecOverlap == InitOverlap /\ [][NextOverlap]_vars

Positive(e) == e.end > e.start

\* C8: on a timeline non-decreasing in start, overlapping(from, to) yields,
\* in timeline order, exactly the positive-duration items e with
\* e.start < to and e.end > from; the early stop drops none of them.
C8_OverlappingExact ==
    (query.called /\ timeline.kind = "list") =>
        SelectSeq(query.result, Positive)
            = SelectSeq(timeline.items,
                        LAMBDA e : Positive(e) /\ e.start < query.end
                                               /\ e.end > query.start)

\* A query that stopped early: an item starting exactly at the end of the
\* window stands between two items that are yielded and one that is not.
C8_Witness ==
    /\ query.called /\ timeline.kind = "list"
    /\ query.start = 1 /\ query.end = 3
    /\ Len(timeline.items) = 3 /\ Len(query.result) = 2
    /\ timeline.items[1].start = 0 /\ timeline.items[1].end = 2
    /\ timeline.items[2].start = 2 /\ timeline.items[2].end = 4
    /\ timeline.items[3].start = 3 /\ timeline.items[3].end = 4

-----------------------------------------------------------------------------
(* SpecTimeline: a schedule as Schedule.from_dict builds it from the         *)
(* aggregate of get_schedule, the timelines made of it at a time now(), and  *)
(* range queries on them.                                                    *)

\* now(): day, minute of the day, microsecond.  Day 20 is 2023-01-21.
Nows == { <<20, 572, 0>>, <<20, 572, 7>>, <<24, 1200, 0>> }

ProgramInfo(program, frequency, synchro) ==
    [kind |-> "programInfo", program |-> program, daysOfWeekMask |-> 6,
     period |-> 6, synchro |-> synchro, frequency |-> frequency]

\* A CUSTOM program on the days of a mask: none, Sunday and Saturday.
CustomInfo(mask) == [ProgramInfo(0, CUSTOM, 2) EXCEPT !.daysOfWeekMask = mask]

\* The start times of a program as the device reports them (65535: unused).
StartLists ==
    { <<240, 65535, 65535, 65535>>, <<240, 1000, 65535, 65535>>,
      <<1430, 65535, 65535, 65535>>, <<240, 240, 65535, 65535>>,
      <<65535, 65535, 65535, 65535>> }

\* The zone durations of a schedule of one program and of two programs.
ZoneTable1 ==
    << [zone |-> 0, durations |-> <<20>>], [zone |-> 1, durations |-> <<0>>],
       [zone |-> 2, durations |-> <<15>>] >>
ZoneTables ==
    { [n \in 1..5 |-> [zone |-> n - 1, durations |-> << <<25, 20, 7, 20, 10>>[n] >>]],
      ZoneTable1 }
ZoneTable2 ==
    << [zone |-> 0, durations |-> <<25, 10>>],
       [zone |-> 1, durations |-> <<20, 0>>] >>

ScheduleValues(delay, infos, starts, zones) ==
    [controllerInfo |-> [present |-> TRUE, stationDelay |-> 0,
                         rainDelay |-> delay, rainSensor |-> 0],
     programInfo |-> infos,
     programStartInfo |->
        [i \in DOMAIN starts |->
            [kind |-> "programStartInfo", program |-> i - 1, startTime |-> starts[i]]],
     durations |-> zones]

Aggregates ==
    { ScheduleValues(d, <<ProgramInfo(0, f, s)>>, <<st>>, zt) :
        d \in {0, 4}, f \in {CUSTOM, CYCLIC, ODD, EVEN}, s \in {0, 2, 5},
        st \in StartLists, zt \in ZoneTables }
    \cup
    { ScheduleValues(d, <<ProgramInfo(0, f, 2), ProgramInfo(1, CUSTOM, 2)>>,
                     <<st, <<300, 65535, 65535, 65535>>>>, ZoneTable2) :
        d \in {0, 4}, f \in {CUSTOM, CYCLIC, ODD, EVEN}, st \in StartLists }
    \cup
    { [ScheduleValues(1, <<ProgramInfo(0, f, 2)>>, <<st>>, ZoneTable1)
          EXCEPT !.controllerInfo.stationDelay = 3] :
        f \in {CUSTOM, CYCLIC, ODD, EVEN}, st \in StartLists }
    \cup
    { ScheduleValues(d, <<CustomInfo(mask)>>, <<st>>, ZoneTable1) :
        d \in {0, 4}, mask \in {0, 65}, st \in StartLists }

InitTimeline ==
    /\ \E now \in Nows : nowDay = now[1] /\ nowMin = now[2] /\ nowUs = now[3]
    /\ tlSchedule \in { Schedule_from_dict(values) : values \in Aggregates }
    /\ timeline = NoTimeline /\ subject = 0 /\ query = NoQuery
    /\ cacheLen = 0 /\ iters = <<>>
    /\ CodecAtRest /\ CtlAtRest

\* No generator yet in a place for one.
NoGenerator ==
    [kind |-> "none", start |-> 0, end |-> 0, from |-> 0, n |-> 0,
     out |-> <<>>, state |-> "absent", warm |-> FALSE]

\* A timeline is made of the schedule, of program n of it when n > 0: a new
\* object, nothing generated and no generator of it yet.
Made(tl, n) ==
    /\ timeline' = tl /\ subject' = n /\ query' = NoQuery
    /\ cacheLen' = 0 /\ iters' = [k \in DOMAIN iters |-> NoGenerator]
    /\ UNCHANGED <<nowDay, nowMin, nowUs, tlSchedule, codecVars, ctlVars>>

\* program.timeline
ProgramTimeline ==
    \E n \in DOMAIN tlSchedule.programs :
        Made(Program_timeline_tz(tlSchedule.programs[n], nowDay), n)

\* program.zone_timeline
ZoneTimeline ==
    \E n \in DOMAIN tlSchedule.programs :
        Made(Program_zone_timeline(tlSchedule.programs[n], nowDay), n)

\* schedule.timeline
ScheduleTimeline == Made(Schedule_timeline_tz(tlSchedule, nowDay), 0)

\* ProgramTimeline(cyclic_recurrence(...)) of a CYCLIC program
CyclicRecurrence ==
    \E n \in DOMAIN tlSchedule.programs :
        /\ tlSchedule.programs[n].frequency = CYCLIC
        /\ Made(cyclic_recurrence(tlSchedule.programs[n].period,
                                  tlSchedule.programs[n].starts,
                                  Program_duration(tlSchedule.programs[n]),
                                  tlSchedule.programs[n].synchro, nowDay, nowUs), n)

\* ProgramTimeline(custom_recurrence(...)) of a CUSTOM program
CustomRecurrence ==
    \E n \in DOMAIN tlSchedule.programs :
        /\ tlSchedule.programs[n].frequency = CUSTOM
        /\ Made(custom_recurrence(tlSchedule.programs[n].days_of_week,
                                  tlSchedule.programs[n].starts,
                                  Program_duration(tlSchedule.programs[n]),
                                  tlSchedule.programs[n].synchro, nowDay, nowUs), n)

\* ProgramTimeline(odd_even_recurrence(...)) of an ODD or EVEN program
OddEvenRecurrence ==
    \E n \in DOMAIN tlSchedule.programs :
        /\ tlSchedule.programs[n].frequency \in {ODD, EVEN}
        /\ Made(odd_even_recurrence(tlSchedule.programs[n].frequency = ODD,
                                    tlSchedule.programs[n].starts,
                                    Program_duration(tlSchedule.programs[n]),
                                    tlSchedule.programs[n].synchro, nowDay, nowUs), n)

\* The windows asked for: 2023-01-01 09:32 to 2023-02-11 00:00, ten days
\* from today's midnight, and windows that begin and end at a start time.
TimelineWindows ==
    { <<At(0, 572), At(41, 0)>>, <<At(20, 0), At(30, 0)>>,
      <<At(22, 240), At(28, 240)>>, <<At(16, 300), At(16, 310)>> }

TimelineOverlapping == OverlappingIn(TimelineWindows)

NextTimeline ==
    \/ ProgramTimeline
    \/ ZoneTimeline
    \/ ScheduleTimeline
    \/ CyclicRecurrence
    \/ CustomRecurrence
    \/ OddEvenRecurrence
    \/ TimelineOverlapping

SpecTimeline == InitTimeline /\ [][NextTimeline]_vars

Starts(items) == [i \in DOMAIN items |-> items[i].start]
Count(items, e) == Cardinality({ i \in DOMAIN items : items[i] = e })

\* The dates the claim gives a CYCLIC program: every period days from one
\* period before today + synchro, without today's and the delay's.
CyclicDates(p, today) ==
    { replace(d, p.starts[i]) : i \in DOMAIN p.starts,
        d \in { d \in (today + p.synchro - p.period)..Horizon :
                  /\ (d - (today + p.synchro - p.period)) % p.period = 0
                  /\ d # today
                  /\ d \notin today..(today + Program_delay_days(p) - 1) } }

\* The events are those of the program on exactly the dates given.
FiresOn(items, p, dates) ==
    /\ Range_(Starts(items)) = dates
    /\ \A i \in DOMAIN items : items[i].end - items[i].start = Program_duration(p)

\* The scenario: period 6, synchro 2, start 04:00, 82 minutes of zones, now
\* 2023-01-21 09:32, the window from 2023-01-01 09:32 to 2023-02-11 00:00.
IsScenario(p) ==
    /\ query.called /\ query.start = At(0, 572) /\ query.end = At(41, 0)
    /\ nowDay = 20 /\ nowMin = 572
    /\ p.period = 6 /\ p.synchro = 2 /\ p.starts = <<time(4, 0)>>
    /\ Program_duration(p) = 82

\* C7: a CYCLIC program fires, at each start time, on exactly the dates a
\* whole number of periods from today + synchro, from one period before it
\* on, without the seed and the delay dates, each event as long as the sum of
\* the zone durations; in the scenario the query yields 01-17, 01-29, 02-04
\* and 02-10 at 04:00, 82 minutes each.
C7_CyclicProgram ==
    (timeline.kind = "recur" /\ timeline.mode = "cyclic") =>
        \A p \in {tlSchedule.programs[subject]} :
            /\ \A items \in {Items(timeline)} :
                  FiresOn(items, p, CyclicDates(p, nowDay))
            /\ IsScenario(p) =>
                  /\ Starts(query.result)
                        = <<At(16, 240), At(28, 240), At(34, 240), At(40, 240)>>
                  /\ \A i \in DOMAIN query.result :
                        query.result[i].end = query.result[i].start + 82

\* The items are in order and are those of the inputs, each as often.
MergeOf(items, inputs) ==
    /\ NonDecreasing(items)
    /\ Len(items) = Len(inputs)
    /\ \A i \in DOMAIN items : Count(items, items[i]) = Count(inputs, items[i])

-----------------------------------------------------------------------------
(* SpecIter: traversals of a timeline over a RecurIterable.  iter(timeline)  *)
(* and timeline.overlapping(a, b) each make a generator; a generator runs to *)
(* its next yield when asked for an item, and may be dropped before its end. *)
(* The rules of the timeline cache what they have generated (cache=True),    *)
(* which is the one thing the traversals share.  There are two generators,   *)
(* an earlier and a later one, which may run in turns.                       *)

\* (a traversal goes on where the rules have been generated to)
iter_shared(generated) == generated

\* RecurIterable.__iter__: a traversal begins at the first item of the
\* iterable, whatever has been generated before.
iter_start(generated) == 0

Generator(kind, start, end, from) ==
    [kind |-> kind, start |-> start, end |-> end, from |-> from, n |-> 0,
     out |-> <<>>, state |-> "running", warm |-> cacheLen > 0]

\* The schedules traversed: one CYCLIC program of two zones, one CUSTOM and
\* one ODD program of one zone, the last with a delay, a schedule of two
\* programs, and a CYCLIC program whose only zone has zero minutes.
IterAggregates ==
    { ScheduleValues(0, <<ProgramInfo(0, CYCLIC, 2)>>,
                     << <<240, 65535, 65535, 65535>> >>, ZoneTable1),
      ScheduleValues(0, <<ProgramInfo(0, CUSTOM, 0)>>,
                     << <<240, 65535, 65535, 65535>> >>,
                     << [zone |-> 0, durations |-> <<20>>] >>),
      ScheduleValues(4, <<ProgramInfo(0, ODD, 2)>>,
                     << <<240, 65535, 65535, 65535>> >>,
                     << [zone |-> 0, durations |-> <<20>>] >>),
      ScheduleValues(0, <<ProgramInfo(0, CYCLIC, 5), ProgramInfo(1, CUSTOM, 2)>>,
                     << <<240, 65535, 65535, 65535>>, <<300, 65535, 65535, 65535>> >>,
                     ZoneTable2),
      ScheduleValues(0, <<ProgramInfo(0, CYCLIC, 2)>>,
                     << <<240, 65535, 65535, 65535>> >>,
                     << [zone |-> 0, durations |-> <<0>>] >>) }

InitIter ==
    /\ nowDay = 20 /\ nowMin = 572 /\ nowUs = 0
    /\ tlSchedule \in { Schedule_from_dict(values) : values \in IterAggregates }
    /\ timeline = NoTimeline /\ subject = 0 /\ query = NoQuery
    /\ cacheLen = 0 /\ iters = <<NoGenerator, NoGenerator>>
    /\ CodecAtRest /\ CtlAtRest

\* The windows asked for: ten days from today's midnight, the whole time
\* generated, and a window that ends at 04:00, a start time of the programs.
IterWindows ==
    { <<At(20, 0), At(30, 0)>>, <<At(0, 572), At(41, 0)>>,
      <<At(20, 0), At(28, 240)>> }

\* The place of the next generator.
Free(k) ==
    /\ iters[k].state = "absent"
    /\ \A j \in DOMAIN iters : j < k => iters[j].state # "absent"

IterUnchanged ==
    UNCHANGED <<nowDay, nowMin, nowUs, tlSchedule, timeline, subject, query,
                codecVars, ctlVars>>

\* iter(timeline)
Iterate ==
    /\ timeline.kind # "none"
    /\ \E k \in DOMAIN iters :
         /\ Free(k)
         /\ iters' = [iters EXCEPT ![k] =
                         Generator("iter", 0, 0, iter_start(cacheLen))]
    /\ UNCHANGED cacheLen
    /\ IterUnchanged

\* timeline.overlapping(start, end)
OverlappingCall ==
    /\ timeline.kind # "none"
    /\ \E k \in DOMAIN iters, w \in IterWindows :
         /\ Free(k)
         /\ iters' = [iters EXCEPT ![k] =
                         Generator("overlapping", w[1], w[2], iter_start(cacheLen))]
    /\ UNCHANGED cacheLen
    /\ IterUnchanged

\* What is left of the iterable for a generator.
Rest(items, g) == SubSeq(items, g.from + g.n + 1, Len(items))

\* The places of the rest at which the loop of a generator leaves the
\* skipping: where it yields or breaks.
Stops(rest, g) ==
    IF g.kind = "iter" THEN DOMAIN rest
    ELSE { i \in DOMAIN rest :
             \/ intersects(rest[i], Timespan(g.start, g.end))
             \/ gt(rest[i], Timespan(g.start, g.end)) }

First(stops) == CHOOSE i \in stops : \A j \in stops : i <= j

\* The generator at its first stop: it yields the item, or breaks.
ResumedAt(g, rest, i) ==
    IF g.kind = "iter" \/ intersects(rest[i], Timespan(g.start, g.end))
    THEN [g EXCEPT !.n = @ + i, !.out = Append(@, rest[i])]
    ELSE [g EXCEPT !.n = @ + i, !.state = "done"]

\* The generator after next(): it has run to its next yield, its break or
\* the end of the iterable.
Resumed(g, rest, stops) ==
    IF stops = {} THEN [g EXCEPT !.n = @ + Len(rest), !.state = "done"]
    ELSE ResumedAt(g, rest, First(stops))

\* next(generator)
NextItem ==
    \E k \in DOMAIN iters :
        /\ iters[k].state = "running"
        /\ \E rest \in {Rest(Items(timeline), iters[k])} :
             \E g \in {Resumed(iters[k], rest, Stops(rest, iters[k]))} :
                 /\ iters' = [iters EXCEPT ![k] = g]
                 /\ cacheLen' = Max(cacheLen, g.from + g.n)
        /\ IterUnchanged

\* the generator is dropped before its end
Abandon ==
    \E k \in DOMAIN iters :
        /\ iters[k].state = "running"
        /\ iters' = [iters EXCEPT ![k].state = "abandoned"]
        /\ UNCHANGED cacheLen
        /\ IterUnchanged

NextIter ==
    \/ CyclicRecurrence
    \/ CustomRecurrence
    \/ OddEvenRecurrence
    \/ Iterate
    \/ OverlappingCall
    \/ NextItem
    \/ Abandon

SpecIter == InitIter /\ [][NextIter]_vars

\* What a traversal of its kind yields when run alone to its end.
Yields(items, g) ==
    IF g.kind = "iter" THEN items ELSE overlapping(items, g.start, g.end)

-----------------------------------------------------------------------------
(* Properties of the timelines of SpecTimeline.                              *)

\* The controller info a timeline takes its delay from: the program's for a
\* program's timeline, the schedule's for the schedule's.
DelayInfo ==
    IF subject = 0 THEN tlSchedule.controller_info
    ELSE tlSchedule.programs[subject].controller_info

\* No item starts on one of the d days from today on.
NoneWithin(items, today, d) ==
    \A i \in DOMAIN items : DayOf(items[i].start) \notin today..(today + d - 1)

Anchors(p, day) == { replace(day, p.starts[i]) : i \in DOMAIN p.starts }

\* No item of the program starts at one of the anchors.
NoneAt(items, program, anchors) ==
    \A i \in DOMAIN items :
        items[i].program = program => items[i].start \notin anchors

RunsOn(p, day) ==
    CASE p.frequency = CUSTOM -> WeekdayOf(day) \in p.days_of_week
      [] p.frequency = ODD -> DayOfMonth(day) % 2 = 1
      [] p.frequency = EVEN -> DayOfMonth(day) % 2 = 0
      [] OTHER -> TRUE

\* Every item is on a day of the frequency at a start time of the program.
OnlyRunDays(items, p) ==
    \A i \in DOMAIN items :
        /\ RunsOn(p, DayOf(items[i].start))
        /\ \E j \in DOMAIN p.starts : items[i].start = replace(DayOf(items[i].start), p.starts[j])

\* Every day of the frequency after the seed day and outside the d days of
\* delay from today on has an item at every start time.
AllRunDays(items, p, seed, today, d) ==
    \A day \in (seed + 1)..(Horizon - 1) :
        (RunsOn(p, day) /\ day \notin today..(today + d - 1)) =>
            \A j \in DOMAIN p.starts :
                \E i \in DOMAIN items : items[i].start = replace(day, p.starts[j])

\* C13: every event of a CUSTOM program starts on a weekday of its
\* days_of_week, of an ODD program on an odd day of the month, of an EVEN
\* program on an even day, always at one of the program's start times; and
\* every such day after the seed and the delay days carries an event.
C13_RunDays ==
    \A items \in {Items(timeline)} :
        /\ (timeline.kind = "recur" /\ timeline.mode \in {"custom", "odd_even"}) =>
              \A p \in {tlSchedule.programs[subject]} :
                  /\ OnlyRunDays(items, p)
                  /\ AllRunDays(items, p, nowDay + p.synchro, nowDay, 0)
        /\ (timeline.kind = "merged" /\ timeline.mode = "program") =>
              \A p \in {tlSchedule.programs[subject]} :
                  p.frequency \in {CUSTOM, ODD, EVEN} =>
                      /\ OnlyRunDays(items, p)
                      /\ AllRunDays(items, p, nowDay, nowDay, Program_delay_days(p))


\* The days on which the zones of a run are compared: the runs that begin
\* before the last days of the horizon, where rules of later zones end.
ZoneDays == 0..(Horizon - 3)

\* The offset of the k-th zone in a run of the program.
ZoneOffset(p, k) == Sum([y \in 1..(k - 1) |-> p.durations[y].duration])

\* The event of the k-th zone in the run of the program that begins at start.
ZoneEvent(p, start, k) ==
    Item(start + ZoneOffset(p, k),
         start + ZoneOffset(p, k) + p.durations[k].duration,
         p.program, p.durations[k].zone)

\* Every run of the program is laid out zone after zone in the items, and
\* every item is a zone of a run of the program.
BackToBack(items, events, p) ==
    /\ \A e \in DOMAIN events :
          DayOf(events[e].start) \in ZoneDays =>
              \A k \in DOMAIN p.durations :
                  \E i \in DOMAIN items : items[i] = ZoneEvent(p, events[e].start, k)
    /\ \A i \in DOMAIN items :
          DayOf(items[i].start) \in ZoneDays =>
              \E e \in DOMAIN events :
                  \E k \in DOMAIN p.durations :
                      items[i] = ZoneEvent(p, events[e].start, k)

\* C14: in the per-zone timeline the k-th zone's event of every occurrence
\* starts at the occurrence start plus the durations of the zones before it
\* and lasts that zone's run time, so that the zone events abut and cover the
\* program-level event of the occurrence, past midnight as well.
C14_ZonesBackToBack ==
    (timeline.kind = "merged" /\ timeline.mode = "zone") =>
        \A items \in {Items(timeline)} :
            \A events \in {Items(Program_timeline_tz(tlSchedule.programs[subject], nowDay))} :
                BackToBack(items, events, tlSchedule.programs[subject])


-----------------------------------------------------------------------------
(* SpecStates: States on a mask string, as AvailableStations builds it, and  *)
(* as get_zone_states builds it from a CurrentStationsActiveResponse.        *)

MaxMaskBytes == 4       \* bytes of a mask string

\* The bytes a mask is made of, two hex digits each.
MaskBytes ==
    { <<0, 0>>, <<0, 1>>, <<1, 0>>, <<3, 8>>, <<8, 0>>, <<15, 15>> }

\* The mask strings of n bytes.
MasksOf(n) == { Concat(bytes) : bytes \in [1..n -> MaskBytes] }

\* Every mask of one byte, and the masks of up to MaxMaskBytes bytes.
Masks ==
    [1..2 -> 0..15] \cup UNION { MasksOf(n) : n \in 1..MaxMaskBytes }

\* The replies to CurrentStationsActiveRequest: page 0 and a mask of 4 bytes.
ZoneStateResponses == { <<11, 15, 0, 0>> \o mask : mask \in MasksOf(4) }

InitStates ==
    /\ \/ cphase = "mask" /\ args \in { <<mask>> : mask \in Masks }
          /\ wire = Raised("")
       \/ cphase = "response" /\ args = <<>>
          /\ wire \in { Encoded(response) : response \in ZoneStateResponses }
    /\ cmd = NoTemplate /\ decoded = DecodeRaised("") /\ rewire = Raised("")
    /\ CtlAtRest /\ TlAtRest

StatesUnchanged ==
    UNCHANGED <<cmd, args, wire, rewire, pc, cache, commands, idx, inflight,
                sent, schedule_data, max_programs, outcome, schedule, lastCall,
                passes, faults, tlVars>>

\* AvailableStations(mask)
NewStates ==
    /\ cphase = "mask"
    /\ stations' = AvailableStations(args[1])
    /\ cphase' = "states"
    /\ UNCHANGED decoded
    /\ StatesUnchanged

\* get_zone_states: the reply is decoded and checked, then the handler makes
\* States("%08X" % resp["activeStations"]).
get_zone_states ==
    /\ cphase = "response"
    /\ \E call \in {process_command(FALSE, "CurrentStationsActiveRequest",
                                    <<3, 15, 0, 0>>, wire.data)} :
          /\ decoded' = call.decoded
          /\ stations' =
                IF call.handled
                THEN [stations |-> States(FormatHex(Get(call.decoded, "activeStations"), 8))]
                ELSE stations
    /\ cphase' = "states"
    /\ StatesUnchanged

NextStates == NewStates \/ get_zone_states

SpecStates == InitStates /\ [][NextStates]_vars

\* The mask string the states were made from.
MaskOf == IF args # <<>> THEN args[1] ELSE Slice(wire.data, 4, 12)

\* Bit (n - 1) mod 8 of byte (n - 1) div 8 of the mask, the lowest bit of a
\* byte being bit 0.
MaskBit(mask, n) ==
    ((mask[2 * ((n - 1) \div 8) + 1] * 16 + mask[2 * ((n - 1) \div 8) + 2])
        \div (2 ^ ((n - 1) % 8))) % 2 = 1

\* C15: States(mask).active(n), for every n in 1..len(mask)*4, is bit
\* (n-1) mod 8 of byte (n-1) div 8 of the mask, least significant bit first,
\* and active_set is the set of such n in 1..32 whose bit is set; the mask
\* 00381000 gives {12, 13, 14, 21}.
C15_StatesLaw ==
    (cphase = "states" /\ stations # <<>>) =>
        /\ stations.stations.count = Len(MaskOf) * 4
        /\ \A n \in 1..(Len(MaskOf) * 4) :
              active(stations.stations, n) = MaskBit(MaskOf, n)
        /\ active_set(stations.stations)
              = { n \in 1..Min(32, Len(MaskOf) * 4) : MaskBit(MaskOf, n) }
        /\ MaskOf = <<0, 0, 3, 8, 1, 0, 0, 0>> =>
              active_set(stations.stations) = {12, 13, 14, 21}

C15_Witness ==
    /\ cphase = "states" /\ wire = Encoded(<<11, 15, 0, 0, 0, 0, 3, 8, 1, 0, 0, 0>>)
    /\ stations # <<>>
    /\ active_set(stations.stations) = {12, 13, 14, 21}


-----------------------------------------------------------------------------
(* Properties of the decoder on the replies of Spec.                         *)

\* The replies A0006000F0FFFFFFFFFFFF and A0000000000400.
StartInfoReply == <<10,0, 0,0, 6,0, 0,0,15,0, 15,15,15,15, 15,15,15,15, 15,15,15,15>>
ControllerInfoReply == <<10,0, 0,0, 0,0, 0,0,0,0, 0,4, 0,0>>

\* C16 (as stated): decoding the schedule response A0006000F0FFFFFFFFFFFF
\* yields a fragment of type ControllerInfo with station delay 0 and rain
\* delay 0 and the rain-sensor field parsed from the trailing bytes.
C16_ControllerInfoFragment ==
    lastCall.response = StartInfoReply =>
        /\ lastCall.decoded.ok
        /\ lastCall.decoded.frag.kind = "controllerInfo"
        /\ lastCall.decoded.frag.stationDelay = 0
        /\ lastCall.decoded.frag.rainDelay = 0

\* C16 (amended): decoding A0006000F0FFFFFFFFFFFF, whose sub-command is 0x60,
\* yields the start times of program 0: 240 and three unused slots (65535).
\* The controller info is the fragment of the reply with sub-command 0:
\* A0000000000400 decodes to station delay 0, rain delay 4 and rain sensor 0.
C16_StartInfoFragment ==
    /\ lastCall.response = StartInfoReply =>
          /\ lastCall.decoded.ok
          /\ lastCall.decoded.type = "RetrieveScheduleResponse"
          /\ lastCall.decoded.frag
                = [kind |-> "programStartInfo", program |-> 0,
                   startTime |-> <<240, 65535, 65535, 65535>>]
    /\ lastCall.response = ControllerInfoReply =>
          /\ lastCall.decoded.ok
          /\ lastCall.decoded.type = "RetrieveScheduleResponse"
          /\ lastCall.decoded.frag
                = [kind |-> "controllerInfo", stationDelay |-> 0,
                   rainDelay |-> 4, rainSensor |-> 0]

C16_Witness ==
    /\ lastCall.command = "RetrieveScheduleRequest"
    /\ lastCall.response = StartInfoReply
    /\ lastCall.decoded.frag.kind = "programStartInfo"
    /\ lastCall.handled


\* C17: decode of a wire string whose first 2 hex characters are not a
\* registered code raises no error and returns a message in which type is
\* present and equal to RawData and data is the unmodified wire string.
C17_RawData ==
    (lastCall.command # ""
        /\ RAINBIRD_COMMANDS_BY_ID(Slice(lastCall.response, 0, 2)) = NoTemplate) =>
            /\ lastCall.decoded.ok
            /\ lastCall.decoded.data = lastCall.response
            /\ lastCall.decoded.hasType
            /\ lastCall.decoded.type = "RawData"


\* A wire string too short for the layout of its registered code: a field of
\* the template ends after the string, or the string ends before the
\* sub-command, the controller info or the program info of a schedule reply.
TooShort(data) ==
    \E t \in {RAINBIRD_COMMANDS_BY_ID(Slice(data, 0, 2))} :
        /\ t # NoTemplate
        /\ IF t.decoder = "decode_schedule"
           THEN \/ Len(data) < 6
                \/ ToNat(Slice(data, 4, 6)) = 0 /\ Len(data) < 14
                \/ BitAnd(ToNat(Slice(data, 4, 6)), 16) = 16 /\ Len(data) < 18
           ELSE \E i \in DOMAIN t.fields :
                    /\ t.fields[i].dict /\ t.fields[i].position # 0
                    /\ t.fields[i].length # 0
                    /\ t.fields[i].position + t.fields[i].length > Len(data)

\* C18: decode of a wire string that starts with a registered code but is too
\* short for the declared layout raises the decoding error: it returns no
\* field map, and it fails with no other kind of error.
C18_TooShortRaises ==
    (lastCall.command # "" /\ TooShort(lastCall.response)) =>
        /\ ~lastCall.decoded.ok
        /\ lastCall.decoded.exc = "RainbirdCodingException"


-----------------------------------------------------------------------------
(* Properties of encode_command in SpecCodec.                                *)

\* Fewer arguments than the template has fields.
TooFew(t, as) == Len(as) < Len(t.fields)

\* An argument that needs more hex digits than its field has.
TooWide(t, as) ==
    \E i \in DOMAIN as : i <= Len(t.fields) /\ Len(as[i]) > t.fields[i].length

\* C19: in field mode encode fails with RainbirdCodingException and returns
\* no wire string when an argument needs more hex digits than its field's
\* declared length or fewer arguments are supplied than the template has
\* fields.
C19_FieldModeRejects ==
    (cphase # "args" /\ FieldMode(cmd) /\ (TooFew(cmd, args) \/ TooWide(cmd, args))) =>
        /\ ~wire.ok
        /\ wire.exc = "RainbirdCodingException"


\* A template in scalar mode: the old style encoding is used.
ScalarMode(t) == t.length # NoLength /\ (t.length = 1 \/ t.scalar)

\* Each argument as two hex characters, in argument order.
TwoDigits(as) == Concat([i \in DOMAIN as |-> FormatHex(as[i], 2)])

\* The wire code, zero padding up to n characters, the arguments.
Padded(code, n, tail) == code \o Zeros(n - Len(code) - Len(tail)) \o tail

\* C20: in scalar mode, for every template and argument list that encode
\* accepts, the result is the wire code, then zero padding, then each
\* argument as 2 hex characters in argument order, and the wire string is
\* exactly 2 * length characters long.
C20_ScalarLayout ==
    (cphase # "args" /\ ScalarMode(cmd) /\ wire.ok) =>
        /\ Len(wire.data) = 2 * cmd.length
        /\ wire.data = Padded(cmd.code, 2 * cmd.length, TwoDigits(args))


-----------------------------------------------------------------------------
(* SpecSchedule: Schedule.from_dict on an aggregate of decoded fragments,    *)
(* aligned with the program numbers or not.                                  *)

\* The programInfo fragment of a program.
InfoFragment(program, frequency, mask, period) ==
    [kind |-> "programInfo", program |-> program, daysOfWeekMask |-> mask,
     period |-> period, synchro |-> 2, permanentDaysOff |-> 0,
     reserved |-> 100, frequency |-> frequency]

\* The programInfo lists: none, one program, two programs in either order,
\* the second program alone.
InfoLists ==
    { <<>> }
    \cup { <<InfoFragment(0, f, mask, period)>> :
              f \in {CUSTOM, CYCLIC, ODD, EVEN}, mask \in {0, 6, 127},
              period \in {0, 6} }
    \cup { <<InfoFragment(0, f, 6, 6), InfoFragment(1, CUSTOM, 65, 3)>> :
              f \in {CUSTOM, CYCLIC} }
    \cup { <<InfoFragment(1, CUSTOM, 65, 3), InfoFragment(0, CYCLIC, 6, 6)>>,
           <<InfoFragment(1, CUSTOM, 65, 3)>> }

StartFragment(program, startTime) ==
    [kind |-> "programStartInfo", program |-> program, startTime |-> startTime]

\* Start times as the device reports them: one, two out of order with an
\* unused slot between them, none, one past the end of the day.
StartTimes ==
    { <<240, 65535, 65535, 65535>>, <<1000, 65535, 61, 65535>>,
      <<65535, 65535, 65535, 65535>>, <<1440, 65535, 65535, 65535>> }

\* The programStartInfo lists: none, one program, two programs.
StartFragments ==
    { <<>> }
    \cup { <<StartFragment(p, st)>> : p \in {0, 1}, st \in StartTimes }
    \cup { <<StartFragment(0, st), StartFragment(1, <<300, 65535, 65535, 65535>>)>> :
              st \in StartTimes }

\* The durations lists, one entry per zone (0-based) with one duration per
\* program: none, for one program, for two, a zone of zero minutes.
DurationLists ==
    { <<>>,
      << [zone |-> 0, durations |-> <<20>>], [zone |-> 1, durations |-> <<0>>],
         [zone |-> 2, durations |-> <<15>>] >>,
      << [zone |-> 0, durations |-> <<25, 0>>], [zone |-> 1, durations |-> <<0, 10>>] >>,
      << [zone |-> 0, durations |-> <<0>>], [zone |-> 1, durations |-> <<0>>] >> }

ScheduleAggregates ==
    { [controllerInfo |-> [present |-> TRUE, stationDelay |-> 0, rainDelay |-> d,
                           rainSensor |-> 0],
       programInfo |-> infos, programStartInfo |-> starts, durations |-> zones] :
        d \in {0, 4}, infos \in InfoLists, starts \in StartFragments,
        zones \in DurationLists }

InitSchedule ==
    /\ pc = "aggregate" /\ schedule_data \in ScheduleAggregates
    /\ schedule = NoSchedule
    /\ cache = <<>> /\ commands = <<>> /\ idx = 0 /\ inflight = <<>> /\ sent = <<>>
    /\ stations = <<>> /\ max_programs = 0 /\ outcome = "none"
    /\ lastCall = <<>> /\ passes = 0 /\ faults = 0
    /\ CodecAtRest /\ TlAtRest

\* Schedule.from_dict(schedule_data)
FromDict ==
    /\ pc = "aggregate"
    /\ schedule' = Schedule_from_dict(schedule_data)
    /\ pc' = "schedule"
    /\ UNCHANGED <<cache, commands, idx, inflight, sent, schedule_data, stations,
                   max_programs, outcome, lastCall, passes, faults, codecVars,
                   tlVars>>

NextSchedule == FromDict

SpecSchedule == InitSchedule /\ [][NextSchedule]_vars

\* The start times of a fragment as times of day: the entries in wire
\* order without the unused ones, minute m as (m div 60):(m mod 60).
TimesOf(startTime) ==
    [i \in DOMAIN SelectSeq(startTime, LAMBDA m : m # 65535) |->
        [hour |-> SelectSeq(startTime, LAMBDA m : m # 65535)[i] \div 60,
         minute |-> SelectSeq(startTime, LAMBDA m : m # 65535)[i] % 60]]

\* The fragments of the aggregate addressed to program p.
StartsFor(p) ==
    SelectSeq(schedule_data.programStartInfo, LAMBDA frag : frag.program = p)

\* C21: the Program with number p has the start times of the
\* programStartInfo fragment whose program number is p, in wire order,
\* without the 0xFFFF entries, each minute m as (m div 60):(m mod 60); a
\* program never receives the start times of a fragment addressed to another
\* program.
C21_StartsOfProgram ==
    pc = "schedule" =>
        /\ schedule.ok
        /\ \A i \in DOMAIN schedule.programs :
              \A frags \in {StartsFor(schedule.programs[i].program)} :
                  schedule.programs[i].starts
                      = IF frags = <<>> THEN <<>>
                        ELSE TimesOf(frags[Len(frags)].startTime)


-----------------------------------------------------------------------------
(* Properties of the schedule get_schedule returns in Spec.                  *)

\* The minutes the device holds for a zone (1-based) in a program slot.
WireMinutes(zone, slot) == IF slot = 1 THEN ZoneMinutes(zone - 1) ELSE 0

\* C22: every ZoneDuration attached to a Program of a schedule returned by
\* get_schedule has zone = wire zone number + 1, a member of the device's
\* active-station set, and the wire minute count of that zone in the
\* program's slot as its duration; no duration of a station outside the
\* active set is attached.
C22_ActiveZoneDurations ==
    (outcome = "returned" /\ schedule.ok) =>
        \A i \in DOMAIN schedule.programs :
            \A k \in DOMAIN schedule.programs[i].durations :
                \A zd \in {schedule.programs[i].durations[k]} :
                    /\ zd.zone \in active_set(stations.stations)
                    /\ zd.zone >= 1
                    /\ zd.duration = WireMinutes(zd.zone, i)
                    /\ zd.duration > 0

C22_Witness ==
    /\ outcome = "returned" /\ schedule.ok
    /\ active_set(stations.stations) = {1, 2}
    /\ Len(schedule.programs) > 0
    /\ schedule.programs[1].durations
          = << [zone |-> 1, duration |-> 25], [zone |-> 2, duration |-> 20] >>


-----------------------------------------------------------------------------
(* Properties of the schedules of SpecSchedule.                              *)

\* C23: every Program of the schedule has an empty days_of_week unless its
\* frequency is CUSTOM and no period unless its frequency is CYCLIC,
\* whatever day mask and period the device sent for it.
C23_FrequencyFields ==
    (pc = "schedule" /\ schedule.ok) =>
        /\ Len(schedule.programs) = Len(schedule_data.programInfo)
        /\ \A i \in DOMAIN schedule.programs :
              \A p \in {schedule.programs[i]} :
                  /\ p.frequency = schedule_data.programInfo[i].frequency
                  /\ p.frequency # CUSTOM => p.days_of_week = {}
                  /\ p.frequency # CYCLIC => p.period = NoneValue

C23_Witness ==
    /\ pc = "schedule" /\ schedule.ok /\ Len(schedule.programs) = 1
    /\ schedule_data.programInfo[1].daysOfWeekMask = 127
    /\ schedule_data.programInfo[1].period = 6
    /\ schedule.programs[1].frequency = ODD
    /\ schedule.programs[1].days_of_week = {}
    /\ schedule.programs[1].period = NoneValue


-----------------------------------------------------------------------------
(* SpecCache: the cacheable commands called again and again on one           *)
(* controller.                                                               *)

MaxCalls == 4       \* calls of cacheable commands on one controller

SerialKey == "SerialNumberRequest-()"

\* get_model_and_version, get_available_stations, get_serial_number
CacheableCommands ==
    { [command |-> "ModelAndVersionRequest", args |-> <<>>, key |-> ModelKey],
      [command |-> "AvailableStationsRequest", args |-> << <<>> >>,
       key |-> StationsKey],
      [command |-> "SerialNumberRequest", args |-> <<>>, key |-> SerialKey] }

\* The serial numbers of the devices: 0 and 0x12635436566.
SerialAnswers ==
    { <<8,5>> \o Zeros(16),
      <<8,5>> \o <<0,0,0,0,0, 1,2,6,3,5,4,3,6,5,6,6>> }

\* What the device answers: the reply to the request, or a NACK.
CacheAnswers(request) ==
    (IF Slice(request, 0, 2) = <<0,5>> THEN SerialAnswers
     ELSE NominalAnswers(request, 0))
    \cup { <<0,0>> \o Slice(request, 0, 2) \o <<0,4>> }

\* The handlers of the three commands on a decoded reply.
CacheableResult(command, msg) ==
    CASE command = "ModelAndVersionRequest" ->
            ModelAndVersion(Get(msg, "modelID"), Get(msg, "protocolRevisionMajor"),
                            Get(msg, "protocolRevisionMinor"), MaxPrograms)
      [] command = "AvailableStationsRequest" ->
            AvailableStations(FormatHex(Get(msg, "setStations"), 8))
      [] OTHER -> Get(msg, "serialNumber")

NoResult == [kind |-> "none", value |-> <<>>]
Returned(v) == [kind |-> "returned", value |-> v]

InitCache ==
    /\ pc = "idle" /\ cache = <<>> /\ inflight = <<>> /\ sent = <<>>
    /\ outcome = NoResult /\ passes = 0
    /\ lastCall = [command |-> "", key |-> "", hadKey |-> FALSE, requests |-> 0]
    /\ commands = <<>> /\ idx = 0 /\ schedule_data = <<>> /\ stations = <<>>
    /\ max_programs = 0 /\ schedule = <<>> /\ faults = 0
    /\ CodecAtRest /\ TlAtRest

CacheUnchanged ==
    UNCHANGED <<commands, idx, schedule_data, stations, max_programs, schedule,
                faults, codecVars, tlVars>>

\* _cacheable_command: the cached result is returned ...
CallCached ==
    /\ pc = "idle" /\ passes < MaxCalls
    /\ \E c \in CacheableCommands :
          /\ CacheHit(cache, c.key)
          /\ outcome' = Returned(cache[c.key])
          /\ lastCall' = [command |-> c.command, key |-> c.key, hadKey |-> TRUE,
                          requests |-> 0]
    /\ passes' = passes + 1
    /\ UNCHANGED <<pc, cache, inflight, sent>>
    /\ CacheUnchanged

\* ... or the request is sent,
CallRequest ==
    /\ pc = "idle" /\ passes < MaxCalls
    /\ \E c \in CacheableCommands :
          /\ ~CacheHit(cache, c.key)
          /\ Request_(c.command, c.args, "wait")
          /\ lastCall' = [command |-> c.command, key |-> c.key,
                          hadKey |-> c.key \in DOMAIN cache, requests |-> 1]
    /\ outcome' = NoResult
    /\ passes' = passes + 1
    /\ UNCHANGED cache
    /\ CacheUnchanged

\* and the result of its reply is cached and returned, or the call raises.
CallResponse ==
    /\ pc = "wait" /\ inflight # <<>>
    /\ \E response \in CacheAnswers(Head(inflight)) :
         \E call \in {process_command(FALSE, lastCall.command, Head(inflight),
                                      response)} :
             IF call.result # "returned"
             THEN /\ outcome' = [kind |-> "raised", value |-> call.result]
                  /\ UNCHANGED cache
             ELSE \E result \in {CacheableResult(lastCall.command, call.decoded)} :
                  /\ cache' = CachePut(cache, lastCall.key, result)
                  /\ outcome' = Returned(result)
    /\ inflight' = Tail(inflight)
    /\ pc' = "idle"
    /\ UNCHANGED <<sent, lastCall, passes>>
    /\ CacheUnchanged

NextCache == CallCached \/ CallRequest \/ CallResponse

SpecCache == InitCache /\ [][NextCache]_vars

\* C24: after a cacheable command has succeeded once, every later call of
\* it with the same arguments sends no request to the device and returns
\* the result of the first call, whatever that result was.
C24_CachedForGood ==
    (lastCall.command # "" /\ lastCall.hadKey) =>
        /\ lastCall.requests = 0
        /\ pc = "idle" /\ outcome = Returned(cache[lastCall.key])


-----------------------------------------------------------------------------
(* SpecDecode: decode of a RetrieveScheduleResponse (code A0, a page byte,   *)
(* a sub-command byte, a payload) for every sub-command byte and payloads of *)
(* several lengths.                                                          *)

\* Payloads: none, three counts, four counts (25, 0, 20, unused), six counts,
\* and twelve digits that are no decimal number.
SchedulePayloads ==
    { <<>>,
      <<0,0,0,1, 0,0,0,2, 0,0,0,3>>,
      Word(25) \o Word(0) \o Word(20) \o Word(65535),
      <<0,0,0,1, 0,0,0,2, 0,0,0,3, 0,0,0,4, 0,0,0,5, 0,0,0,6>>,
      <<7,15, 0,3, 0,0, 0,0, 6,4, 0,0>> }

ScheduleResponses ==
    { <<10,0, 0,0>> \o Byte(sub) \o payload :
        sub \in 0..255, payload \in SchedulePayloads }

InitDecode ==
    /\ cphase = "encoded" /\ cmd = NoTemplate /\ args = <<>>
    /\ wire \in {Encoded(data) : data \in ScheduleResponses}
    /\ decoded = DecodeRaised("") /\ rewire = Raised("")
    /\ CtlAtRest /\ TlAtRest

NextDecode == Decode

SpecDecode == InitDecode /\ [][NextDecode]_vars

\* The sub-command byte and the payload of a schedule response.
SubCommandOf(data) == ToNat(Slice(data, 4, 6))
PayloadOf(data) == Slice(data, 6, Len(data))

\* C25: for every sub-command byte 0..255 the schedule decoder, when it
\* returns, gives exactly one variant, chosen in this order: 0 gives the
\* controller info; else bit 0x10 gives the program info of program (byte
\* without 0x10); else both bits of 0x60 give the start times of program (byte
\* without 0x60); else bit 0x80 gives the zone durations of station index
\* (byte without 0x80); any other byte gives the raw payload.
C25_DispatchByPriority ==
    (cphase = "decoded" /\ decoded.ok) =>
        \E sub \in {SubCommandOf(wire.data)} :
            IF sub = 0 THEN
                decoded.frag.kind = "controllerInfo" /\ decoded.data = <<>>
            ELSE IF (sub \div 16) % 2 = 1 THEN
                /\ decoded.frag.kind = "programInfo" /\ decoded.data = <<>>
                /\ decoded.frag.program = sub - 16
            ELSE IF (sub \div 32) % 4 = 3 THEN
                /\ decoded.frag.kind = "programStartInfo" /\ decoded.data = <<>>
                /\ decoded.frag.program = sub - 96
            ELSE IF sub >= 128 THEN
                /\ decoded.frag.kind = "durations" /\ decoded.data = <<>>
                /\ decoded.frag.entries[1].zone = 2 * (sub - 128)
            ELSE decoded.frag = NoFrag /\ decoded.data = wire.data

\* Sub-command 0x70 has the bits of both masks: it is decoded as the program
\* info of program 0x60, and 0x2F, which no mask matches, as raw data.
C25_Witness ==
    /\ cphase = "decoded" /\ decoded.ok
    /\ \/ /\ SubCommandOf(wire.data) = 112
          /\ decoded.frag.kind = "programInfo" /\ decoded.frag.program = 96
       \/ /\ SubCommandOf(wire.data) = 47
          /\ decoded.frag = NoFrag /\ decoded.data = wire.data

\* The i-th four-digit count of a payload.
CountAt(payload, i) == ToNat(Slice(payload, 4 * (i - 1), 4 * i))

\* C26: a zone-durations response of station index z with 2n four-digit
\* counts is decoded as exactly two entries, zone 2z with the first n counts
\* and zone 2z+1 with the last n, each in wire order.
C26_TwoZoneHalves ==
    (/\ cphase = "decoded"
     /\ SubCommandOf(wire.data) \in 128..143
     /\ Len(PayloadOf(wire.data)) % 8 = 0) =>
        \E z \in {SubCommandOf(wire.data) - 128},
           n \in {Len(PayloadOf(wire.data)) \div 8} :
            /\ decoded.ok /\ decoded.frag.kind = "durations"
            /\ Len(decoded.frag.entries) = 2
            /\ decoded.frag.entries[1]
                 = [zone |-> 2 * z,
                    durations |-> [i \in 1..n |-> CountAt(PayloadOf(wire.data), i)]]
            /\ decoded.frag.entries[2]
                 = [zone |-> 2 * z + 1,
                    durations |-> [i \in 1..n |-> CountAt(PayloadOf(wire.data), n + i)]]

\* Station index 3 with six counts: zone 6 gets 1, 2, 3 and zone 7 gets 4, 5, 6.
C26_Witness ==
    /\ cphase = "decoded" /\ SubCommandOf(wire.data) = 131
    /\ Len(PayloadOf(wire.data)) = 24
    /\ decoded.ok /\ decoded.frag.kind = "durations"
    /\ decoded.frag.entries
         = << [zone |-> 6, durations |-> <<1, 2, 3>>],
              [zone |-> 7, durations |-> <<4, 5, 6>>] >>


\* The minutes the aggregate holds for the program in slot i (1-based) of
\* the zone entries, zeros included.
WireDurations(i) ==
    [k \in DOMAIN schedule_data.durations |->
        IF i <= Len(schedule_data.durations[k].durations)
        THEN schedule_data.durations[k].durations[i] ELSE 0]

\* C27: a zone whose duration for a program slot is 0 gives no ZoneDuration
\* to the program of that slot, and every ZoneDuration of a returned Program
\* is strictly positive; a program with no positive duration is still
\* returned, with no durations and a total duration of 0, and with no
\* timeline events when it has no start times.
C27_ZeroDurationsDropped ==
    (pc = "schedule" /\ schedule.ok) =>
        /\ Len(schedule.programs) = Len(schedule_data.programInfo)
        /\ \A i \in DOMAIN schedule.programs :
            \A p \in {schedule.programs[i]}, mins \in {WireDurations(i)} :
              /\ \A z \in DOMAIN p.durations : p.durations[z].duration > 0
              /\ \A k \in DOMAIN mins :
                    mins[k] = 0 =>
                        ~\E z \in DOMAIN p.durations :
                            p.durations[z].zone = schedule_data.durations[k].zone + 1
              /\ (\A k \in DOMAIN mins : mins[k] = 0) =>
                    /\ p.durations = <<>>
                    /\ Program_duration(p) = 0
                    /\ p.starts = <<>> =>
                          \A now \in Nows :
                              /\ Items(Program_timeline_tz(p, now[1])) = <<>>
                              /\ Items(Program_zone_timeline(p, now[1])) = <<>>

\* A program whose two zones are both of zero minutes and whose start slots
\* are all unused is returned with nothing to run.
C27_Witness ==
    /\ pc = "schedule" /\ schedule.ok
    /\ Len(schedule.programs) = 1
    /\ StartsFor(0) # <<>>
    /\ schedule_data.durations
         = << [zone |-> 0, durations |-> <<0>>], [zone |-> 1, durations |-> <<0>>] >>
    /\ schedule.programs[1].durations = <<>>
    /\ schedule.programs[1].starts = <<>>
    /\ Program_duration(schedule.programs[1]) = 0
    /\ \A now \in Nows :
          Items(Program_timeline_tz(schedule.programs[1], now[1])) = <<>>


-----------------------------------------------------------------------------
(* Where a range query of SpecIter stops.                                    *)

\* The places of the items that start at or after t.
FromOn(items, t) == { i \in DOMAIN items : items[i].start >= t }

\* The events a generator has consumed of the iterable.
Consumed(g) == g.from + g.n

\* C28: on a timeline whose starts are non-decreasing and go beyond the end
\* of the window, a range query over a window from < to consumes no event
\* past the first one that starts at or after to, and has ended once it has
\* consumed that event.
C28_StopsAtWindowEnd ==
    \A items \in {Items(timeline)} :
        \A k \in DOMAIN iters :
            ( /\ iters[k].kind = "overlapping" /\ iters[k].start < iters[k].end
              /\ FromOn(items, iters[k].end) # {} )
            => \A stop \in {First(FromOn(items, iters[k].end))} :
                  /\ Consumed(iters[k]) <= stop
                  /\ Consumed(iters[k]) = stop => iters[k].state \in {"done", "abandoned"}
                  /\ iters[k].state = "done" => Consumed(iters[k]) = stop


-----------------------------------------------------------------------------
(* States.active on numbers that are no zone of the mask, in SpecStates.     *)

\* Zone numbers outside 1..n: 0, the negative ones down to -(n + 1), and the
\* ones above n up to the highest zone number.
Outside(n) == (-(n + 1))..0 \cup (n + 1)..(MAX_ZONES + 1)

\* C30: active(n) returns False and does not raise for every n outside
\* 1..(number of states), 0 and negative n included, whatever the mask; and
\* active_set holds no zone whose bit of the mask is clear.
C30_InactiveOutside ==
    (cphase = "states" /\ stations # <<>>) =>
        /\ \A n \in Outside(Len(stations.stations.states)) :
              /\ ~active_raises(stations.stations, n)
              /\ active(stations.stations, n) = FALSE
        /\ \A n \in active_set(stations.stations) :
              n <= Len(MaskOf) * 4 /\ MaskBit(MaskOf, n)


\* C29: a well-formed response that echoes a sub-command get_schedule can
\* request, 0x10|p or 0x60|p for a program p below the program count, 0x80|z
\* for a zone page z below 11, is decoded as the program info of program p,
\* the start times of program p, the durations of zones 2z and 2z+1, and as
\* no other variant or index.
C29_EchoedSubCommand ==
    (cphase = "decoded" /\ decoded.ok) =>
        \A P \in 1..MaxPrograms :
            \A requested \in {ScheduleCommands(P, MaxStations)} :
                \A k \in 2..Len(requested) :
                    Slice(wire.data, 2, 6) = requested[k] =>
                        IF k <= 1 + P THEN
                            /\ decoded.frag.kind = "programInfo"
                            /\ decoded.frag.program = k - 2
                        ELSE IF k <= 1 + 2 * P THEN
                            /\ decoded.frag.kind = "programStartInfo"
                            /\ decoded.frag.program = k - 2 - P
                        ELSE
                            /\ decoded.frag.kind = "durations"
                            /\ Len(decoded.frag.entries) = 2
                            /\ decoded.frag.entries[1].zone = 2 * (k - 2 - 2 * P)
                            /\ decoded.frag.entries[2].zone = 2 * (k - 2 - 2 * P) + 1

\* The echo of the last zone page, 0x8A, with four counts gives zones 20 and
\* 21 with two counts each.
C29_Witness ==
    /\ cphase = "decoded" /\ decoded.ok
    /\ Slice(wire.data, 2, 6) = ScheduleCommands(MaxPrograms, MaxStations)[2 * MaxPrograms + 12]
    /\ decoded.frag.kind = "durations"
    /\ decoded.frag.entries[1].zone = 20 /\ decoded.frag.entries[2].zone = 21
    /\ Len(decoded.frag.entries[1].durations) = 2

=============================================================================
